---- MODULE Spec2Model ----
(***************************************************************************)
(* Model of the recursive-descent YAML parser of src/parser/parser.go.     *)
(*                                                                         *)
(* The parser is a set of mutually recursive methods sharing one token     *)
(* cursor (ctx.idx).  It is modelled as a machine with an explicit call    *)
(* stack: `pc` names the code about to run, `stack` holds one frame per    *)
(* active sub-parser (its locals and the label it resumes at), `ret` holds *)
(* the (node, err) pair a callee hands to its caller.  A nil dereference   *)
(* is a Go runtime panic and ends the run in pc = "panic".                 *)
(*                                                                         *)
(* Token streams hold no Comment tokens (they are filtered out unless the  *)
(* ParseComments mode is set), so a token's forward link is the token that *)
(* follows it in the parser context.                                       *)
(***************************************************************************)
EXTENDS Integers, Sequences, FiniteSets, TLC

VARIABLES tokens, idx, pc, stack, ret, file,
          scanner, ctx, pos, phase, scanned, inits, observed

vars == <<tokens, idx, pc, stack, ret, file,
          scanner, ctx, pos, phase, scanned, inits, observed>>

(***************************************************************************)
(* Bounds of the explored token streams.                                   *)
(***************************************************************************)
MaxLen == 3
MaxMapLen == 8
MaxSeqLen == 7
MaxFlowLen == 4

\* Bounds of the explored sources and of the calls of Init.
MaxSrcLen == 2
MaxFlowSrcLen == 5
MaxBlockSrcLen == 5
MaxIndentSrcLen == 5
MaxLineSrcLen == 6
MaxHistoryLen == 1
MaxReLen == 3
MaxInits == 2

(***************************************************************************)
(* Scanner state.  The Scanner struct is the variable scanner; the Context *)
(* of the Scan call under way is ctx and the progress that call will       *)
(* return is pos.  phase is "Scan" between two Scan calls, "scan" inside   *)
(* the loop of Scanner.scan, "EOF" once Scan has returned io.EOF and       *)
(* "idle" when no scanner runs.  scanned holds the tokens the Scan calls   *)
(* have returned so far, in order.  inits counts the calls of Init, and    *)
(* observed lists the indent states decided at the first character of each *)
(* line; both are records of the past and steer nothing.                   *)
(***************************************************************************)
IndentStateEqual == 0
IndentStateUp == 1
IndentStateDown == 2
IndentStateKeep == 3

\* A nil *token.Position.
NilPosition == [line |-> 0, column |-> 0, offset |-> 0, indentNum |-> 0,
                indentLevel |-> 0]

\* The zero value of the Scanner struct.
ZeroScanner ==
    [source |-> <<>>, sourcePos |-> 0, sourceSize |-> 0,
     line |-> 0, column |-> 0, offset |-> 0,
     prevIndentLevel |-> 0, prevIndentNum |-> 0, prevIndentColumn |-> 0,
     indentLevel |-> 0, indentNum |-> 0,
     isFirstCharAtLine |-> FALSE, isAnchor |-> FALSE,
     isStartedFlowSequence |-> FALSE, isStartedFlowMap |-> FALSE,
     indentState |-> IndentStateEqual, savedPos |-> NilPosition]

\* Context of one Scan call over the rest of the source.  bufAt remembers
\* the index in src of the first character of the buffered text; nothing
\* in the scanner reads it.
newContext(src) ==
    [src |-> src, size |-> Len(src), idx |-> 0,
     buf |-> <<>>, obuf |-> <<>>, tokens |-> <<>>,
     isLiteral |-> FALSE, isFolded |-> FALSE, isRawFolded |-> FALSE,
     literalOpt |-> <<>>, bufAt |-> 0]

\* No Scan call is under way.
NoContext == newContext(<<>>)

\* No scanner runs while the parser is explored.
ScannerIdle ==
    /\ scanner = ZeroScanner
    /\ ctx = NoContext
    /\ pos = 0
    /\ phase = "idle"
    /\ scanned = <<>>
    /\ inits = 0
    /\ observed = <<>>


(***************************************************************************)
(* Tokens.  A token is [type, column, origin, offset]; offset stands for   *)
(* Position.Offset and is the token's place in the stream.                 *)
(***************************************************************************)
NilToken == [type |-> "nil", column |-> 0, origin |-> <<>>, offset |-> 0]

Lexeme(t, c, o) == [type |-> t, column |-> c, origin |-> o]

\* String-family and scalar kinds, as grouped by parseStringValue and
\* parseScalarValue.
StringKinds == {"String", "SingleQuote", "DoubleQuote"}

IntegerKinds == {"Integer", "BinaryInteger", "OctetInteger", "HexInteger"}

\* Every kind, each at column 1, plus the column and origin variants that
\* the parser's decisions depend on.
FullAlphabet ==
    {Lexeme(t, 1, <<"a">>) : t \in
        {"String", "DoubleQuote", "Null", "Integer", "MergeKey",
         "MappingValue", "MappingStart", "MappingEnd", "SequenceStart",
         "SequenceEnd", "CollectEntry", "SequenceEntry", "DocumentHeader",
         "DocumentEnd", "Anchor", "Alias", "Directive", "Tag", "Literal"}}
    \cup {Lexeme("String", 2, <<"\n", "a">>),
          Lexeme("String", 1, <<"a", "\n", "b">>),
          Lexeme("SequenceEntry", 2, <<"a">>)}

MapAlphabet ==
    {Lexeme("String", 1, <<"a">>), Lexeme("String", 2, <<"a">>),
     Lexeme("MappingValue", 1, <<"a">>)}

SeqAlphabet ==
    {Lexeme("SequenceEntry", 1, <<"a">>), Lexeme("SequenceEntry", 2, <<"a">>),
     Lexeme("Integer", 1, <<"a">>)}

FlowAlphabet ==
    {Lexeme(t, 1, <<"a">>) : t \in
        {"MappingStart", "MappingEnd", "SequenceStart", "SequenceEnd",
         "CollectEntry", "String", "MappingValue"}}

StreamsOver(alphabet, n) == UNION {[1..k -> alphabet] : k \in 0..n}

\* The stream as the parser context holds it: each token knows its position.
Finalize(s) == [i \in 1..Len(s) |-> [type |-> s[i].type, column |-> s[i].column,
                                     origin |-> s[i].origin, offset |-> i]]

\* The token streams of the scenarios the specification lists:
\* `a: 1`, `a: 1 / b: 2`, `- 1 / - 2 / - 3`, `{a: 1, b: 2}`,
\* `key: | / hello / world`, `a: &x 1 / b: *x` and `--- / foo / ...`.
ScenarioOne ==
    <<Lexeme("String", 1, <<"a">>), Lexeme("MappingValue", 2, <<":">>),
      Lexeme("Integer", 4, <<"1">>)>>

ScenarioTwo ==
    ScenarioOne \o
    <<Lexeme("String", 1, <<"\n", "b">>), Lexeme("MappingValue", 2, <<":">>),
      Lexeme("Integer", 4, <<"2">>)>>

ScenarioThree ==
    <<Lexeme("SequenceEntry", 1, <<"-">>), Lexeme("Integer", 3, <<"1">>),
      Lexeme("SequenceEntry", 1, <<"-">>), Lexeme("Integer", 3, <<"2">>),
      Lexeme("SequenceEntry", 1, <<"-">>), Lexeme("Integer", 3, <<"3">>)>>

ScenarioFour ==
    <<Lexeme("MappingStart", 1, <<"{">>), Lexeme("String", 2, <<"a">>),
      Lexeme("MappingValue", 3, <<":">>), Lexeme("Integer", 5, <<"1">>),
      Lexeme("CollectEntry", 6, <<",">>), Lexeme("String", 8, <<"b">>),
      Lexeme("MappingValue", 9, <<":">>), Lexeme("Integer", 11, <<"2">>),
      Lexeme("MappingEnd", 12, <<"}">>)>>

ScenarioFive ==
    <<Lexeme("String", 1, <<"k">>), Lexeme("MappingValue", 4, <<":">>),
      Lexeme("Literal", 6, <<"|">>), Lexeme("String", 3, <<"h", "\n", "w", "\n">>)>>

ScenarioSix ==
    <<Lexeme("String", 1, <<"a">>), Lexeme("MappingValue", 2, <<":">>),
      Lexeme("Anchor", 4, <<"&">>), Lexeme("String", 5, <<"x">>),
      Lexeme("Integer", 7, <<"1">>),
      Lexeme("String", 1, <<"\n", "b">>), Lexeme("MappingValue", 2, <<":">>),
      Lexeme("Alias", 4, <<"*">>), Lexeme("String", 5, <<"x">>)>>

ScenarioSeven ==
    <<Lexeme("DocumentHeader", 1, <<"-">>), Lexeme("String", 1, <<"f">>),
      Lexeme("DocumentEnd", 1, <<".">>)>>

Scenarios ==
    {ScenarioOne, ScenarioTwo, ScenarioThree, ScenarioFour, ScenarioFive,
     ScenarioSix, ScenarioSeven}

Streams ==
    StreamsOver(FullAlphabet, MaxLen) \cup StreamsOver(MapAlphabet, MaxMapLen)
    \cup StreamsOver(SeqAlphabet, MaxSeqLen) \cup StreamsOver(FlowAlphabet, MaxFlowLen)
    \cup Scenarios

(***************************************************************************)
(* Parser context: the token cursor and its lookahead primitives.          *)
(***************************************************************************)
size == Len(tokens)

tokenAt(i) == IF i >= 1 /\ i <= size THEN tokens[i] ELSE NilToken

next == idx <= size

currentToken == tokenAt(idx)

nextToken == tokenAt(idx + 1)

afterNextToken == tokenAt(idx + 2)

\* Token.NextType: the kind of the token the forward link points to.
NextType(tk) == IF tk.offset < size THEN tokens[tk.offset + 1].type ELSE "Unknown"

(***************************************************************************)
(* Nodes.  Every node is [type, start, end, values, flow]: `start` is the  *)
(* token GetToken returns (Token of a scalar, Start of a composite),       *)
(* `values` the child nodes in field order.                                *)
(***************************************************************************)
NoValues == <<>>

NilNode == [type |-> "nil", start |-> NilToken, end |-> NilToken,
            values |-> NoValues, flow |-> FALSE]

MkNode(t, tk, vs) == [type |-> t, start |-> tk, end |-> NilToken,
                      values |-> vs, flow |-> FALSE]

Scalar(t, tk) == MkNode(t, tk, NoValues)

ScalarTypes == {"String", "Null", "Bool", "Integer", "Float", "Infinity", "Nan",
                "MergeKey"}

\* Node.GetToken: a Document has no token of its own and answers with its
\* body's token.
RECURSIVE GetToken(_)
GetToken(n) ==
    IF n.type = "Document" THEN GetToken(n.values[1]) ELSE n.start

\* Calling GetToken (or Type) on a nil node, or on a Document whose body is
\* nil, dereferences nil.
RECURSIVE PanicsOnGetToken(_)
PanicsOnGetToken(n) ==
    IF n.type = "nil" THEN TRUE
    ELSE IF n.type = "Document" THEN PanicsOnGetToken(n.values[1])
    ELSE FALSE

(***************************************************************************)
(* Errors.  An error is the chain of its messages, outermost first; nil is *)
(* the empty chain.                                                        *)
(***************************************************************************)
NoErr == <<>>

ErrSyntax(msg) == <<msg>>

Wrapf(err, msg) == <<msg>> \o err

SyntaxMessages ==
    {"failed to parse flow mapping value node",
     "unexpected key name",
     "unexpected mapping 'key'. key is undefined",
     "unexpected mapping 'key', key is not scalar value",
     "could not found expected ':' token",
     "unexpected anchor. anchor name is undefined",
     "unexpected anchor. anchor value is undefined",
     "unexpected alias. alias name is undefined",
     "unexpected directive value. document not started",
     "unexpected token. required string token"}

IsSyntaxError(err) == err # NoErr /\ err[Len(err)] \in SyntaxMessages

Ok(n) == [node |-> n, err |-> NoErr]

Fail(e) == [node |-> NilNode, err |-> e]

(***************************************************************************)
(* Call stack.                                                             *)
(***************************************************************************)
\* A frame holds the locals its function still needs when it resumes: the
\* node under construction, the mapping key, the token `tk` and the column.
Frame(fn, at, node, key, tk, column) ==
    [fn |-> fn, at |-> at, node |-> node, key |-> key, tk |-> tk, column |-> column]

top == stack[Len(stack)]

Pop == SubSeq(stack, 1, Len(stack) - 1)

Push(f) == Append(stack, f)

ReplaceTop(f) == Append(Pop, f)

Returning(fn, at) ==
    pc = "return" /\ stack # <<>> /\ top.fn = fn /\ top.at = at

\* Hand (node, err) to the caller and drop the returning frame.
Return(r, stk) == pc' = "return" /\ ret' = r /\ stack' = stk

\* Call parseToken(ctx, ctx.currentToken()) with the caller's frame on top.
Call(stk) == pc' = "parseToken" /\ stack' = stk /\ UNCHANGED ret

Panic == pc' = "panic" /\ UNCHANGED <<stack, ret>>

(***************************************************************************)
(* Init: the state after newContext(tokens, mode) in parser.parse.         *)
(***************************************************************************)
Init ==
    /\ tokens \in {Finalize(s) : s \in Streams}
    /\ idx = 1
    /\ pc = "parse"
    /\ stack = <<>>
    /\ ret = Ok(NilNode)
    /\ file = <<>>
    /\ ScannerIdle

(***************************************************************************)
(* Scalar recognisers.                                                     *)
(***************************************************************************)
parseStringValue(tk) ==
    IF tk.type \in StringKinds THEN Scalar("String", tk) ELSE NilNode

parseScalarValue(tk) ==
    IF parseStringValue(tk) # NilNode THEN parseStringValue(tk)
    ELSE IF tk.type = "Null" THEN Scalar("Null", tk)
    ELSE IF tk.type = "Bool" THEN Scalar("Bool", tk)
    ELSE IF tk.type \in IntegerKinds THEN Scalar("Integer", tk)
    ELSE IF tk.type = "Float" THEN Scalar("Float", tk)
    ELSE IF tk.type = "Infinity" THEN Scalar("Infinity", tk)
    ELSE IF tk.type = "Nan" THEN Scalar("Nan", tk)
    ELSE NilNode

\* parseMapKey taking every scalar for a key.
parseMapKeyAnyScalar(tk) ==
    IF parseScalarValue(tk) # NilNode THEN parseScalarValue(tk)
    ELSE IF tk.type = "MergeKey" THEN Scalar("MergeKey", tk)
    ELSE NilNode

parseMapKey(tk) ==
    IF parseStringValue(tk) # NilNode THEN parseStringValue(tk)
    ELSE IF tk.type = "MergeKey" THEN Scalar("MergeKey", tk)
    ELSE IF tk.type = "Null" THEN Scalar("Null", tk)
    ELSE NilNode

\* strings.TrimLeft(origin, "\n")
RECURSIVE TrimLeftNewlines(_)
TrimLeftNewlines(o) ==
    IF o # <<>> /\ Head(o) = "\n" THEN TrimLeftNewlines(Tail(o)) ELSE o

\* strings.Index(origin, "\n"), 0-based, -1 when absent
RECURSIVE IndexNewline(_)
IndexNewline(o) ==
    IF o = <<>> THEN -1
    ELSE IF Head(o) = "\n" THEN 0
    ELSE IF IndexNewline(Tail(o)) = -1 THEN -1
    ELSE 1 + IndexNewline(Tail(o))

\* The error of validateMapKey, NoErr when the key is valid.
validateMapKey(tk) ==
    IF tk.type # "String" THEN NoErr
    ELSE IF IndexNewline(TrimLeftNewlines(tk.origin)) > 0
         THEN ErrSyntax("unexpected key name")
    ELSE NoErr

(***************************************************************************)
(* parser.parse: the top-level loop.                                       *)
(***************************************************************************)
Document(startTk, body) == MkNode("Document", startTk, <<body>>)

\* for ctx.next() { node, err := p.parseToken(ctx, ctx.currentToken()) ...
parse ==
    /\ pc = "parse"
    /\ IF next
       THEN /\ Call(Push(Frame("parse", "node", NilNode, NilNode, NilToken, 0)))
            /\ UNCHANGED file
       ELSE /\ pc' = "done"
            /\ ret' = Ok(NilNode)
            /\ UNCHANGED <<stack, file>>
    /\ UNCHANGED <<tokens, idx>>
    /\ UNCHANGED <<scanner, ctx, pos, phase, scanned, inits, observed>>

\* ... the rest of the loop body; Parse wraps the error once more.
parseNode ==
    /\ Returning("parse", "node")
    /\ stack' = Pop
    /\ IF ret.err # NoErr
       THEN /\ pc' = "done"
            /\ ret' = Fail(Wrapf(Wrapf(ret.err, "failed to parse"), "failed to parse"))
            /\ file' = <<>>
            /\ UNCHANGED idx
       ELSE /\ pc' = "parse"
            /\ idx' = idx + 1
            /\ file' = IF ret.node = NilNode THEN file
                       ELSE IF ret.node.type = "Document" THEN Append(file, ret.node)
                       ELSE Append(file, Document(NilToken, ret.node))
            /\ UNCHANGED ret
    /\ UNCHANGED tokens
    /\ UNCHANGED <<scanner, ctx, pos, phase, scanned, inits, observed>>

(***************************************************************************)
(* parser.parseToken: dispatch on the current token.                       *)
(***************************************************************************)
\* The sub-parser the switch of parseToken selects, "" when there is none.
SubParser(tk) ==
    CASE tk.type = "DocumentHeader" -> "parseDocument"
      [] tk.type = "MappingStart" -> "parseMapping"
      [] tk.type = "SequenceStart" -> "parseSequence"
      [] tk.type = "SequenceEntry" -> "parseSequenceEntry"
      [] tk.type = "Anchor" -> "parseAnchor"
      [] tk.type = "Alias" -> "parseAlias"
      [] tk.type = "Directive" -> "parseDirective"
      [] tk.type = "Tag" -> "parseTag"
      [] tk.type \in {"Literal", "Folded"} -> "parseLiteral"
      [] OTHER -> ""

\* A mapping key is recognised by the token that follows it.
IsMappingKey(tk) == NextType(tk) = "MappingValue"

parseToken ==
    /\ pc = "parseToken"
    /\ LET tk == currentToken IN
       IF tk = NilToken THEN Panic
       ELSE IF IsMappingKey(tk)
            THEN pc' = "parseMappingValue" /\ UNCHANGED <<stack, ret>>
       ELSE IF parseScalarValue(tk) # NilNode
            THEN Return(Ok(parseScalarValue(tk)), stack)
       ELSE IF SubParser(tk) # ""
            THEN pc' = SubParser(tk) /\ UNCHANGED <<stack, ret>>
       ELSE Return(Ok(NilNode), stack)
    /\ UNCHANGED <<tokens, idx, file>>
    /\ UNCHANGED <<scanner, ctx, pos, phase, scanned, inits, observed>>

(***************************************************************************)
(* parser.parseMappingValue: a block mapping group.                        *)
(***************************************************************************)
\* key.(ast.ScalarNode)
IsScalarNode(n) == n.type \in ScalarTypes

\* The error the key checks end in, NoErr when the key is accepted.
KeyError(tk) ==
    IF parseMapKey(tk) = NilNode
    THEN ErrSyntax("unexpected mapping 'key'. key is undefined")
    ELSE IF validateMapKey(GetToken(parseMapKey(tk))) # NoErr
    THEN Wrapf(validateMapKey(GetToken(parseMapKey(tk))), "validate mapping key error")
    ELSE IF ~IsScalarNode(parseMapKey(tk))
    THEN ErrSyntax("unexpected mapping 'key', key is not scalar value")
    ELSE NoErr

\* token.New("null", "null", tk.Position)
NullAt(tk) == [type |-> "Null", column |-> tk.column, origin |-> <<"null">>,
               offset |-> tk.offset]

\* The value sits in the key's column, is a String, and no ':' or '-' follows.
MissingColon(key, value, ntk) ==
    /\ GetToken(key).column = GetToken(value).column
    /\ value.type = "String"
    /\ (ntk = NilToken \/ (ntk.type # "MappingValue" /\ ntk.type # "SequenceEntry"))

\* Absorbs without the column test.
AbsorbsAnyColumn(key, ntk, antk) ==
    /\ antk # NilToken
    /\ antk.type = "MappingValue"

\* The condition of the sibling loop.
Absorbs(key, ntk, antk) ==
    /\ antk # NilToken
    /\ antk.type = "MappingValue"
    /\ ntk.column = GetToken(key).column

\* The switch on the sibling's result: the grown pair list.
Flatten(node, value) ==
    IF value.type = "Mapping" THEN [node EXCEPT !.values = @ \o value.values]
    ELSE [node EXCEPT !.values = Append(@, value)]

\* MappingValueResult without the length test.
AlwaysMappingNode(node) == node

\* if len(node.Values) == 1 { return mvnode } return node
MappingValueResult(node) ==
    IF Len(node.values) = 1 THEN node.values[1] ELSE node

\* The sibling loop absorbing a pair without moving the cursor.
SiblingLoopInPlace(i, key, tk, node, stk) ==
    IF Absorbs(key, tokenAt(i + 1), tokenAt(i + 2))
    THEN /\ idx' = i
         /\ Call(Append(stk, Frame("parseMappingValue", "sibling", node, key, tk, 0)))
    ELSE /\ idx' = i
         /\ Return(Ok(MappingValueResult(node)), stk)

\* The sibling loop, entered with the cursor on token i and `node` holding
\* the pairs gathered so far: absorb one more pair or return.
SiblingLoop(i, key, tk, node, stk) ==
    IF Absorbs(key, tokenAt(i + 1), tokenAt(i + 2))
    THEN /\ idx' = i + 1
         /\ Call(Append(stk, Frame("parseMappingValue", "sibling", node, key, tk, 0)))
    ELSE /\ idx' = i
         /\ Return(Ok(MappingValueResult(node)), stk)

\* The code after the value is known, with the cursor on token i.
AfterValue(i, key, tk, value, stk) ==
    IF PanicsOnGetToken(value)
    THEN idx' = i /\ Panic
    ELSE IF MissingColon(key, value, tokenAt(i + 1))
    THEN idx' = i /\ Return(Fail(ErrSyntax("could not found expected ':' token")), stk)
    ELSE SiblingLoop(i, key, tk,
                     MkNode("Mapping", tk, <<MkNode("MappingValue", tk, <<key, value>>)>>),
                     stk)

\* From the entry to the call that parses the value.
parseMappingValue ==
    /\ pc = "parseMappingValue"
    /\ LET key == parseMapKey(currentToken)
           tk == tokenAt(idx + 1)
       IN IF KeyError(currentToken) # NoErr
          THEN Return(Fail(KeyError(currentToken)), stack) /\ UNCHANGED idx
          ELSE IF tokenAt(idx + 2) = NilToken
          THEN AfterValue(idx + 2, key, tk, Scalar("Null", NullAt(tk)), stack)
          ELSE /\ idx' = idx + 2
               /\ Call(Push(Frame("parseMappingValue", "value", NilNode, key, tk, 0)))
    /\ UNCHANGED <<tokens, file>>
    /\ UNCHANGED <<scanner, ctx, pos, phase, scanned, inits, observed>>

\* The value has been parsed.
parseMappingValueValue ==
    /\ Returning("parseMappingValue", "value")
    /\ IF ret.err # NoErr
       THEN /\ Return(Fail(Wrapf(ret.err, "failed to parse mapping 'value' node")), Pop)
            /\ UNCHANGED idx
       ELSE AfterValue(idx, top.key, top.tk, ret.node, Pop)
    /\ UNCHANGED <<tokens, file>>
    /\ UNCHANGED <<scanner, ctx, pos, phase, scanned, inits, observed>>

\* A sibling pair has been parsed.
parseMappingValueSibling ==
    /\ Returning("parseMappingValue", "sibling")
    /\ IF ret.err # NoErr
       THEN /\ Return(Fail(Wrapf(ret.err, "failed to parse mapping node")), Pop)
            /\ UNCHANGED idx
       ELSE IF ret.node = NilNode
       THEN Panic /\ UNCHANGED idx
       ELSE IF ret.node.type \notin {"Mapping", "MappingValue"}
       THEN /\ Return(Fail(<<"failed to parse mapping value node node is">>), Pop)
            /\ UNCHANGED idx
       ELSE SiblingLoop(idx, top.key, top.tk, Flatten(top.node, ret.node), Pop)
    /\ UNCHANGED <<tokens, file>>
    /\ UNCHANGED <<scanner, ctx, pos, phase, scanned, inits, observed>>

(***************************************************************************)
(* parser.parseSequenceEntry: a block sequence.                            *)
(***************************************************************************)
\* SeqContinues without the column test.
SeqContinuesAnyColumn(tk, curColumn) ==
    /\ tk # NilToken
    /\ tk.type = "SequenceEntry"

\* The loop goes on while the next token is a '-' in the column of the first.
SeqContinues(tk, curColumn) ==
    /\ tk # NilToken
    /\ tk.type = "SequenceEntry"
    /\ tk.column = curColumn

\* From the entry to the call that parses the first entry.
parseSequenceEntry ==
    /\ pc = "parseSequenceEntry"
    /\ idx' = idx + 1
    /\ Call(Push(Frame("parseSequenceEntry", "entry",
                       MkNode("Sequence", currentToken, NoValues),
                       NilNode, currentToken, currentToken.column)))
    /\ UNCHANGED <<tokens, file>>
    /\ UNCHANGED <<scanner, ctx, pos, phase, scanned, inits, observed>>

\* An entry has been parsed: append it, then go round the loop or return.
parseSequenceEntryEntry ==
    /\ Returning("parseSequenceEntry", "entry")
    /\ IF ret.err # NoErr
       THEN /\ Return(Fail(Wrapf(ret.err, "failed to parse sequence")), Pop)
            /\ UNCHANGED idx
       ELSE LET sequenceNode == [top.node EXCEPT !.values = Append(@, ret.node)] IN
            IF SeqContinues(nextToken, top.column)
            THEN /\ idx' = idx + 2
                 /\ Call(ReplaceTop([top EXCEPT !.node = sequenceNode, !.tk = nextToken]))
            ELSE /\ Return(Ok(sequenceNode), Pop)
                 /\ UNCHANGED idx
    /\ UNCHANGED <<tokens, file>>
    /\ UNCHANGED <<scanner, ctx, pos, phase, scanned, inits, observed>>

(***************************************************************************)
(* parser.parseMapping and parser.parseSequence: flow containers.          *)
(***************************************************************************)
FlowNode(t, tk) == [MkNode(t, tk, NoValues) EXCEPT !.flow = TRUE]

\* value.(*ast.MappingValueNode)
IsMappingValueNode(n) == n.type = "MappingValue"

parseMapping ==
    /\ pc = "parseMapping"
    /\ idx' = idx + 1
    /\ pc' = "parseMappingLoop"
    /\ stack' = Push(Frame("parseMapping", "value", FlowNode("Mapping", currentToken),
                           NilNode, NilToken, 0))
    /\ UNCHANGED <<tokens, ret, file>>
    /\ UNCHANGED <<scanner, ctx, pos, phase, scanned, inits, observed>>

\* One turn of `for ctx.next()` up to the call of parseToken.
parseMappingLoop ==
    /\ pc = "parseMappingLoop"
    /\ IF ~next
       THEN Return(Ok(top.node), Pop) /\ UNCHANGED idx
       ELSE IF currentToken.type = "MappingEnd"
       THEN Return(Ok([top.node EXCEPT !.end = currentToken]), Pop) /\ UNCHANGED idx
       ELSE IF currentToken.type = "CollectEntry"
       THEN idx' = idx + 1 /\ UNCHANGED <<pc, stack, ret>>
       ELSE Call(stack) /\ UNCHANGED idx
    /\ UNCHANGED <<tokens, file>>
    /\ UNCHANGED <<scanner, ctx, pos, phase, scanned, inits, observed>>

\* The element has been parsed.
parseMappingValueNode ==
    /\ Returning("parseMapping", "value")
    /\ IF ret.err # NoErr
       THEN /\ Return(Fail(Wrapf(ret.err, "failed to parse mapping value in mapping node")), Pop)
            /\ UNCHANGED idx
       ELSE IF ~IsMappingValueNode(ret.node)
       THEN /\ IF PanicsOnGetToken(ret.node) THEN Panic
               ELSE Return(Fail(ErrSyntax("failed to parse flow mapping value node")), Pop)
            /\ UNCHANGED idx
       ELSE /\ idx' = idx + 1
            /\ pc' = "parseMappingLoop"
            /\ stack' = ReplaceTop([top EXCEPT !.node.values = Append(@, ret.node)])
            /\ UNCHANGED ret
    /\ UNCHANGED <<tokens, file>>
    /\ UNCHANGED <<scanner, ctx, pos, phase, scanned, inits, observed>>

parseSequence ==
    /\ pc = "parseSequence"
    /\ idx' = idx + 1
    /\ pc' = "parseSequenceLoop"
    /\ stack' = Push(Frame("parseSequence", "value", FlowNode("Sequence", currentToken),
                           NilNode, NilToken, 0))
    /\ UNCHANGED <<tokens, ret, file>>
    /\ UNCHANGED <<scanner, ctx, pos, phase, scanned, inits, observed>>

parseSequenceLoop ==
    /\ pc = "parseSequenceLoop"
    /\ IF ~next
       THEN Return(Ok(top.node), Pop) /\ UNCHANGED idx
       ELSE IF currentToken.type = "SequenceEnd"
       THEN Return(Ok([top.node EXCEPT !.end = currentToken]), Pop) /\ UNCHANGED idx
       ELSE IF currentToken.type = "CollectEntry"
       THEN idx' = idx + 1 /\ UNCHANGED <<pc, stack, ret>>
       ELSE Call(stack) /\ UNCHANGED idx
    /\ UNCHANGED <<tokens, file>>
    /\ UNCHANGED <<scanner, ctx, pos, phase, scanned, inits, observed>>

parseSequenceValue ==
    /\ Returning("parseSequence", "value")
    /\ IF ret.err # NoErr
       THEN /\ Return(Fail(Wrapf(ret.err, "failed to parse sequence value in flow sequence node")), Pop)
            /\ UNCHANGED idx
       ELSE /\ idx' = idx + 1
            /\ pc' = "parseSequenceLoop"
            /\ stack' = ReplaceTop([top EXCEPT !.node.values = Append(@, ret.node)])
            /\ UNCHANGED ret
    /\ UNCHANGED <<tokens, file>>
    /\ UNCHANGED <<scanner, ctx, pos, phase, scanned, inits, observed>>

(***************************************************************************)
(* parser.parseTag                                                         *)
(***************************************************************************)
parseTag ==
    /\ pc = "parseTag"
    /\ idx' = idx + 1
    /\ Call(Push(Frame("parseTag", "value", MkNode("Tag", currentToken, <<NilNode>>),
                       NilNode, NilToken, 0)))
    /\ UNCHANGED <<tokens, file>>
    /\ UNCHANGED <<scanner, ctx, pos, phase, scanned, inits, observed>>

parseTagValue ==
    /\ Returning("parseTag", "value")
    /\ IF ret.err # NoErr
       THEN Return(Fail(Wrapf(ret.err, "failed to parse tag value")), Pop)
       ELSE Return(Ok([top.node EXCEPT !.values = <<ret.node>>]), Pop)
    /\ UNCHANGED <<tokens, idx, file>>
    /\ UNCHANGED <<scanner, ctx, pos, phase, scanned, inits, observed>>

(***************************************************************************)
(* parser.parseAnchor and parser.parseAlias                                *)
(***************************************************************************)
parseAnchor ==
    /\ pc = "parseAnchor"
    /\ IF nextToken = NilToken
       THEN /\ Return(Fail(ErrSyntax("unexpected anchor. anchor name is undefined")), stack)
            /\ UNCHANGED idx
       ELSE /\ idx' = idx + 1
            /\ Call(Push(Frame("parseAnchor", "name",
                               MkNode("Anchor", currentToken, <<NilNode, NilNode>>),
                               NilNode, NilToken, 0)))
    /\ UNCHANGED <<tokens, file>>
    /\ UNCHANGED <<scanner, ctx, pos, phase, scanned, inits, observed>>

parseAnchorName ==
    /\ Returning("parseAnchor", "name")
    /\ IF ret.err # NoErr
       THEN /\ Return(Fail(Wrapf(ret.err, "failed to parser anchor name node")), Pop)
            /\ UNCHANGED idx
       ELSE IF nextToken = NilToken
       THEN /\ Return(Fail(ErrSyntax("unexpected anchor. anchor value is undefined")), Pop)
            /\ UNCHANGED idx
       ELSE /\ idx' = idx + 1
            /\ Call(ReplaceTop([top EXCEPT !.at = "value", !.node.values[1] = ret.node]))
    /\ UNCHANGED <<tokens, file>>
    /\ UNCHANGED <<scanner, ctx, pos, phase, scanned, inits, observed>>

parseAnchorValue ==
    /\ Returning("parseAnchor", "value")
    /\ IF ret.err # NoErr
       THEN Return(Fail(Wrapf(ret.err, "failed to parser anchor name node")), Pop)
       ELSE Return(Ok([top.node EXCEPT !.values[2] = ret.node]), Pop)
    /\ UNCHANGED <<tokens, idx, file>>
    /\ UNCHANGED <<scanner, ctx, pos, phase, scanned, inits, observed>>

parseAlias ==
    /\ pc = "parseAlias"
    /\ IF nextToken = NilToken
       THEN /\ Return(Fail(ErrSyntax("unexpected alias. alias name is undefined")), stack)
            /\ UNCHANGED idx
       ELSE /\ idx' = idx + 1
            /\ Call(Push(Frame("parseAlias", "name",
                               MkNode("Alias", currentToken, <<NilNode>>),
                               NilNode, NilToken, 0)))
    /\ UNCHANGED <<tokens, file>>
    /\ UNCHANGED <<scanner, ctx, pos, phase, scanned, inits, observed>>

parseAliasName ==
    /\ Returning("parseAlias", "name")
    /\ IF ret.err # NoErr
       THEN Return(Fail(Wrapf(ret.err, "failed to parser alias name node")), Pop)
       ELSE Return(Ok([top.node EXCEPT !.values = <<ret.node>>]), Pop)
    /\ UNCHANGED <<tokens, idx, file>>
    /\ UNCHANGED <<scanner, ctx, pos, phase, scanned, inits, observed>>

(***************************************************************************)
(* parser.parseDirective                                                   *)
(***************************************************************************)
parseDirective ==
    /\ pc = "parseDirective"
    /\ idx' = idx + 1
    /\ Call(Push(Frame("parseDirective", "value",
                       MkNode("Directive", currentToken, <<NilNode>>),
                       NilNode, NilToken, 0)))
    /\ UNCHANGED <<tokens, file>>
    /\ UNCHANGED <<scanner, ctx, pos, phase, scanned, inits, observed>>

\* The value has been parsed: step over it and look for the document header.
parseDirectiveValue ==
    /\ Returning("parseDirective", "value")
    /\ IF ret.err # NoErr
       THEN /\ Return(Fail(Wrapf(ret.err, "failed to parse directive value")), Pop)
            /\ UNCHANGED idx
       ELSE /\ idx' = idx + 1
            /\ IF tokenAt(idx + 1) = NilToken THEN Panic
               ELSE IF tokenAt(idx + 1).type # "DocumentHeader"
               THEN Return(Fail(ErrSyntax("unexpected directive value. document not started")), Pop)
               ELSE Return(Ok([top.node EXCEPT !.values = <<ret.node>>]), Pop)
    /\ UNCHANGED <<tokens, file>>
    /\ UNCHANGED <<scanner, ctx, pos, phase, scanned, inits, observed>>

(***************************************************************************)
(* parser.parseLiteral                                                     *)
(***************************************************************************)
\* value.(*ast.StringNode)
IsStringNode(n) == n.type = "String"

parseLiteral ==
    /\ pc = "parseLiteral"
    /\ idx' = idx + 1
    /\ Call(Push(Frame("parseLiteral", "value",
                       MkNode("Literal", currentToken, <<NilNode>>),
                       NilNode, NilToken, 0)))
    /\ UNCHANGED <<tokens, file>>
    /\ UNCHANGED <<scanner, ctx, pos, phase, scanned, inits, observed>>

parseLiteralValue ==
    /\ Returning("parseLiteral", "value")
    /\ IF ret.err # NoErr
       THEN Return(Fail(Wrapf(ret.err, "failed to parse literal/folded value")), Pop)
       ELSE IF ~IsStringNode(ret.node)
       THEN IF PanicsOnGetToken(ret.node) THEN Panic
            ELSE Return(Fail(ErrSyntax("unexpected token. required string token")), Pop)
       ELSE Return(Ok([top.node EXCEPT !.values = <<ret.node>>]), Pop)
    /\ UNCHANGED <<tokens, idx, file>>
    /\ UNCHANGED <<scanner, ctx, pos, phase, scanned, inits, observed>>

(***************************************************************************)
(* parser.parseDocument                                                    *)
(***************************************************************************)
parseDocument ==
    /\ pc = "parseDocument"
    /\ idx' = idx + 1
    /\ Call(Push(Frame("parseDocument", "body", Document(currentToken, NilNode),
                       NilNode, NilToken, 0)))
    /\ UNCHANGED <<tokens, file>>
    /\ UNCHANGED <<scanner, ctx, pos, phase, scanned, inits, observed>>

parseDocumentBody ==
    /\ Returning("parseDocument", "body")
    /\ IF ret.err # NoErr
       THEN /\ Return(Fail(Wrapf(ret.err, "failed to parse document body")), Pop)
            /\ UNCHANGED idx
       ELSE IF nextToken # NilToken /\ nextToken.type = "DocumentEnd"
       THEN /\ idx' = idx + 1
            /\ Return(Ok([top.node EXCEPT !.values = <<ret.node>>, !.end = nextToken]), Pop)
       ELSE /\ Return(Ok([top.node EXCEPT !.values = <<ret.node>>]), Pop)
            /\ UNCHANGED idx
    /\ UNCHANGED <<tokens, file>>
    /\ UNCHANGED <<scanner, ctx, pos, phase, scanned, inits, observed>>

Next ==
    \/ parse
    \/ parseNode
    \/ parseToken
    \/ parseMappingValue
    \/ parseMappingValueValue
    \/ parseMappingValueSibling
    \/ parseSequenceEntry
    \/ parseSequenceEntryEntry
    \/ parseMapping
    \/ parseMappingLoop
    \/ parseMappingValueNode
    \/ parseSequence
    \/ parseSequenceLoop
    \/ parseSequenceValue
    \/ parseTag
    \/ parseTagValue
    \/ parseAnchor
    \/ parseAnchorName
    \/ parseAnchorValue
    \/ parseAlias
    \/ parseAliasName
    \/ parseDirective
    \/ parseDirectiveValue
    \/ parseLiteral
    \/ parseLiteralValue
    \/ parseDocument
    \/ parseDocumentBody

Spec == Init /\ [][Next]_vars

\* The parser is one sequential program: while a step can be taken, one is.
SpecRun == Spec /\ WF_vars(Next)

(***************************************************************************)
(* Properties.                                                             *)
(***************************************************************************)
\* Every node of the tree under n, n included.
RECURSIVE Nodes(_)
Nodes(n) == {n} \cup UNION {Nodes(n.values[i]) : i \in 1..Len(n.values)}

\* Every node the parser holds: returned, under construction, or filed.
HeldNodes ==
    Nodes(ret.node)
    \cup UNION {Nodes(file[i]) : i \in 1..Len(file)}
    \cup UNION {Nodes(stack[i].node) \cup Nodes(stack[i].key) : i \in 1..Len(stack)}

IsBlockMapping(n) == n.type = "Mapping" /\ ~n.flow

IsBlockSequence(n) == n.type = "Sequence" /\ ~n.flow

KeyToken(pair) == pair.values[1].start

\* The control is inside parseMappingValue, about to decide on a sibling.
InMappingValue ==
    \/ pc = "parseMappingValue"
    \/ Returning("parseMappingValue", "value")
    \/ Returning("parseMappingValue", "sibling")

\* The step ends in the call that parses a sibling pair.
AbsorbsSibling ==
    /\ InMappingValue
    /\ pc' = "parseToken"
    /\ stack'[Len(stack')].fn = "parseMappingValue"
    /\ stack'[Len(stack')].at = "sibling"

\* The step ends in parseMappingValue returning its node.
ReturnsMappingValue == InMappingValue /\ pc' = "return" /\ ret'.err = NoErr

\* The first key of what parseMappingValue returned.
FirstKeyToken(n) ==
    IF n.type = "Mapping" THEN KeyToken(n.values[1]) ELSE n.values[1].start

ColumnAgrees(m) ==
    \A i \in 1..Len(m.values) :
        /\ m.values[i].type = "MappingValue"
        /\ KeyToken(m.values[i]).column = KeyToken(m.values[1]).column
        /\ tokenAt(KeyToken(m.values[i]).offset + 1).type = "MappingValue"
        /\ (i > 1 => KeyToken(m.values[i - 1]).offset < KeyToken(m.values[i]).offset)

\* An absorbed pair starts at the token the cursor moved to: it sits in the
\* key's column and a MappingValue token follows it.
AbsorbedIsSibling ==
    AbsorbsSibling =>
        (/\ tokenAt(idx').column = stack'[Len(stack')].key.start.column
         /\ tokenAt(idx' + 1).type = "MappingValue")

\* Nothing that could be absorbed is left behind.
NoSiblingLeft ==
    ReturnsMappingValue =>
        ~(/\ tokenAt(idx' + 2).type = "MappingValue"
          /\ tokenAt(idx' + 1).column = FirstKeyToken(ret'.node).column)

\* C1: every block Mapping holds only pairs whose keys sit in the column of
\* its first key, in token order; parseMappingValue absorbs a following pair
\* exactly when the next token sits in that column and is followed by a
\* MappingValue token, and that token is then the key it parses.
C1_ColumnAgreement ==
    /\ [](\A m \in HeldNodes : IsBlockMapping(m) => ColumnAgrees(m))
    /\ [][AbsorbedIsSibling /\ NoSiblingLeft]_vars

\* A pair from a nested Mapping result has been flattened into a Mapping of
\* three pairs.
C1_Witness ==
    /\ pc = "return"
    /\ ret.err = NoErr
    /\ IsBlockMapping(ret.node)
    /\ Len(ret.node.values) = 3
    /\ stack # <<>>
    /\ top.fn = "parse"

\* C2: parseMappingValue returns the bare MappingValue when one pair was
\* gathered and a Mapping of at least two pairs otherwise; no returned tree
\* holds a block Mapping of one pair; `a: 1` parses to a MappingValue and
\* `a: 1 / b: 2` to a Mapping of the two pairs in order.
ReturnsBareOrMapping ==
    ReturnsMappingValue =>
        IF Returning("parseMappingValue", "sibling")
        THEN /\ IsBlockMapping(ret'.node)
             /\ Len(ret'.node.values) >= 2
             /\ Len(ret'.node.values) > Len(top.node.values)
             /\ SubSeq(ret'.node.values, 1, Len(top.node.values)) = top.node.values
        ELSE /\ ret'.node.type = "MappingValue"
             /\ Len(ret'.node.values) = 2

Pair(k, v) == <<Scalar("String", k), Scalar("Integer", v)>>

ScenarioOneResult ==
    (pc = "done" /\ tokens = Finalize(ScenarioOne))
    => (/\ ret.err = NoErr
        /\ Len(file) = 1
        /\ file[1].values[1].type = "MappingValue"
        /\ file[1].values[1].values = Pair(tokens[1], tokens[3]))

ScenarioTwoResult ==
    (pc = "done" /\ tokens = Finalize(ScenarioTwo))
    => (/\ ret.err = NoErr
        /\ Len(file) = 1
        /\ IsBlockMapping(file[1].values[1])
        /\ Len(file[1].values[1].values) = 2
        /\ file[1].values[1].values[1].values = Pair(tokens[1], tokens[3])
        /\ file[1].values[1].values[2].values = Pair(tokens[4], tokens[6]))

ReturnedNodes ==
    Nodes(ret.node) \cup UNION {Nodes(file[i]) : i \in 1..Len(file)}

C2_BareMappingValue ==
    /\ [](pc \in {"return", "done"} =>
            \A m \in ReturnedNodes : IsBlockMapping(m) => Len(m.values) >= 2)
    /\ [][ReturnsBareOrMapping]_vars
    /\ []ScenarioOneResult
    /\ []ScenarioTwoResult

\* `a: 1 / b: 2` has been parsed into one document.
C2_Witness ==
    /\ pc = "done"
    /\ tokens = Finalize(ScenarioTwo)
    /\ Len(file) = 1
    /\ IsBlockMapping(file[1].values[1])

\* The smallest offset of a token in the tree under n.
MinOffset(n) ==
    LET offsets == {m.start.offset : m \in {x \in Nodes(n) : x.start # NilToken}}
    IN CHOOSE o \in offsets : \A q \in offsets : o <= q

\* Each entry of a block sequence follows a '-' in the column of the first.
EntriesShareColumn(s) ==
    \A i \in 1..Len(s.values) :
        s.values[i] # NilNode =>
            LET dash == tokenAt(MinOffset(s.values[i]) - 1) IN
            /\ dash.type = "SequenceEntry"
            /\ dash.column = s.start.column
            /\ (i = 1 => dash = s.start)

\* parseSequenceEntry starts on the first '-' and steps over it.
SequenceBegins ==
    pc = "parseSequenceEntry" =>
        /\ pc' = "parseToken"
        /\ idx' = idx + 1
        /\ stack'[Len(stack')].node = MkNode("Sequence", currentToken, NoValues)

\* After an entry the loop goes on exactly when a '-' in the column of the
\* first follows, stepping over it; otherwise the sequence is returned and
\* the cursor stays on the last token of the entry.
SequenceGoesOn ==
    (Returning("parseSequenceEntry", "entry") /\ ret.err = NoErr) =>
        IF nextToken.type = "SequenceEntry" /\ nextToken.column = top.node.start.column
        THEN /\ pc' = "parseToken"
             /\ idx' = idx + 2
             /\ Len(stack') = Len(stack)
             /\ stack'[Len(stack')].fn = "parseSequenceEntry"
             /\ stack'[Len(stack')].node = [top.node EXCEPT !.values = Append(@, ret.node)]
        ELSE /\ pc' = "return"
             /\ idx' = idx
             /\ stack' = Pop
             /\ ret' = Ok([top.node EXCEPT !.values = Append(@, ret.node)])

ScenarioThreeResult ==
    (pc = "done" /\ tokens = Finalize(ScenarioThree))
    => (/\ ret.err = NoErr
        /\ Len(file) = 1
        /\ IsBlockSequence(file[1].values[1])
        /\ file[1].values[1].values =
               <<Scalar("Integer", tokens[2]), Scalar("Integer", tokens[4]),
                 Scalar("Integer", tokens[6])>>)

\* C3: a block Sequence holds one entry per '-' in the column of the first
\* '-', in order; after an entry the loop goes on only if the next token is
\* a '-' in that column, and any other token ends the sequence and is left
\* for the enclosing parser.
C3_SequenceColumn ==
    /\ [](\A s \in HeldNodes : IsBlockSequence(s) => EntriesShareColumn(s))
    /\ [][SequenceBegins /\ SequenceGoesOn]_vars
    /\ []ScenarioThreeResult

\* A sequence of two entries has ended at a '-' of another column.
C3_Witness ==
    /\ pc = "return"
    /\ ret.err = NoErr
    /\ IsBlockSequence(ret.node)
    /\ Len(ret.node.values) = 2
    /\ nextToken.type = "SequenceEntry"
    /\ nextToken.column # ret.node.start.column

KeyKinds == {"String", "SingleQuote", "DoubleQuote", "MergeKey", "Null"}

\* parseToken tries the mapping key before anything else.
KeyDispatchFirst ==
    (pc = "parseToken" /\ currentToken # NilToken
        /\ NextType(currentToken) = "MappingValue")
    => (pc' = "parseMappingValue" /\ idx' = idx /\ stack' = stack)

\* A key of any other kind is a syntax error.
NonKeyRejected ==
    (pc = "parseMappingValue" /\ currentToken.type \notin KeyKinds)
    => (/\ pc' = "return"
        /\ ret'.err = ErrSyntax("unexpected mapping 'key'. key is undefined")
        /\ IsSyntaxError(ret'.err))

\* An error returned by a sub-parser reaches the caller of Parse.
ErrorsPropagate ==
    (pc = "return" /\ ret.err # NoErr)
    => (/\ pc' \in {"return", "done"}
        /\ Len(ret'.err) > Len(ret.err)
        /\ SubSeq(ret'.err, Len(ret'.err) - Len(ret.err) + 1, Len(ret'.err)) = ret.err)

\* C4 (as amended): whenever parseToken is called on a token whose next
\* token is a MappingValue, the token is parsed as a mapping key before the
\* scalar dispatch, and the parse fails with a syntax error unless its kind
\* is String, SingleQuote, DoubleQuote, MergeKey or Null.
C4_KeyKinds == [][KeyDispatchFirst /\ NonKeyRejected /\ ErrorsPropagate]_vars

\* An Integer before ':' has been rejected.
C4_Witness ==
    /\ pc = "return"
    /\ ret.err = ErrSyntax("unexpected mapping 'key'. key is undefined")
    /\ currentToken.type = "Integer"
    /\ nextToken.type = "MappingValue"

\* C4 (as stated): no parse succeeds on a stream in which a token of
\* another kind is immediately followed by a MappingValue token.
C4_EveryTokenBeforeColon ==
    (pc = "done" /\ ret.err = NoErr) =>
        \A i \in 1..(size - 1) :
            tokens[i + 1].type = "MappingValue" => tokens[i].type \in KeyKinds

\* The value of a pair is known: parsed, or absent and taken as Null.
ValueParsed == Returning("parseMappingValue", "value") /\ ret.err = NoErr

ValueAbsent ==
    /\ pc = "parseMappingValue"
    /\ KeyError(currentToken) = NoErr
    /\ tokenAt(idx + 2) = NilToken

\* The arrangement `key:` / `value` with the value in the key's column.
SameColumnString ==
    /\ ret.node.type = "String"
    /\ ret.node.start.column = top.key.start.column
    /\ nextToken.type \notin {"MappingValue", "SequenceEntry"}

FailsMissingColon ==
    pc' = "return" /\ ret'.err = ErrSyntax("could not found expected ':' token")

PairAccepted == pc' # "panic" /\ ~(pc' = "return" /\ ret'.err # NoErr)

\* C5: parseMappingValue fails with "could not found expected ':' token"
\* if and only if the value is a String in the key's column that neither a
\* MappingValue nor a SequenceEntry follows; otherwise the pair is accepted.
C5_MissingColon ==
    [][/\ ValueParsed => IF SameColumnString THEN FailsMissingColon ELSE PairAccepted
       /\ ValueAbsent => PairAccepted]_vars

\* C6: in a flow mapping every element that parses to anything but a
\* MappingValue node, no node included, makes parseMapping return a syntax
\* error.
C6_FlowMappingElement ==
    [][(Returning("parseMapping", "value") /\ ret.err = NoErr
            /\ ret.node.type # "MappingValue")
       => (/\ pc' = "return"
           /\ ret'.err = ErrSyntax("failed to parse flow mapping value node"))]_vars

\* A flow container is opened and never closed.
Unclosed(open, close) ==
    \E i \in 1..size :
        /\ tokens[i].type = open
        /\ \A j \in (i + 1)..size : tokens[j].type # close

\* C7: Parse returns an error when the stream ends inside a flow container.
C7_UnbalancedFlow ==
    (pc = "done" /\ (Unclosed("MappingStart", "MappingEnd")
                       \/ Unclosed("SequenceStart", "SequenceEnd")))
    => ret.err # NoErr

FailsNoDocument ==
    /\ pc' = "return"
    /\ ret'.err = ErrSyntax("unexpected directive value. document not started")

\* C8: a directive whose value is not followed by a DocumentHeader, or that
\* ends the stream with or without its value, fails with "unexpected
\* directive value. document not started".
C8_DirectiveHeader ==
    [][/\ (Returning("parseDirective", "value") /\ ret.err = NoErr
              /\ nextToken.type # "DocumentHeader") => FailsNoDocument
       /\ (pc = "parseToken" /\ top.fn = "parseDirective" /\ currentToken = NilToken)
              => (pc' = "return" /\ IsSyntaxError(ret'.err))]_vars

\* C9: a Literal or Folded token followed by anything but a String node, or
\* by nothing, makes parseLiteral return a syntax error.
C9_LiteralString ==
    [][/\ (Returning("parseLiteral", "value") /\ ret.err = NoErr
              /\ ret.node.type # "String")
              => (pc' = "return" /\ IsSyntaxError(ret'.err))
       /\ (pc = "parseToken" /\ top.fn = "parseLiteral" /\ currentToken = NilToken)
              => (pc' = "return" /\ IsSyntaxError(ret'.err))]_vars

\* A missing name or value token is a syntax error.
AnchorTokensRequired ==
    /\ (pc \in {"parseAnchor", "parseAlias"} /\ nextToken = NilToken)
          => (pc' = "return" /\ IsSyntaxError(ret'.err))
    /\ (Returning("parseAnchor", "name") /\ ret.err = NoErr /\ nextToken = NilToken)
          => (pc' = "return" /\ IsSyntaxError(ret'.err))

\* C10: an Anchor needs a name token and a value token, an Alias a name
\* token; a missing one is a syntax error, and a returned Anchor holds a
\* name and a value, a returned Alias a name.
C10_AnchorComplete ==
    /\ [][AnchorTokensRequired]_vars
    /\ []((pc = "return" /\ ret.err = NoErr) =>
            /\ ret.node.type = "Anchor" =>
                  (ret.node.values[1] # NilNode /\ ret.node.values[2] # NilNode)
            /\ ret.node.type = "Alias" => ret.node.values[1] # NilNode)

\* Every node of the returned File.
FileNodes == UNION {Nodes(file[i]) : i \in 1..Len(file)}

Returned == pc = "done" /\ ret.err = NoErr

\* The Document that starts at token i: its body is parsed from the tokens
\* after the header and its end, if any, is a DocumentEnd token.
DocumentOf(i) ==
    \E d \in FileNodes :
        /\ d.type = "Document"
        /\ d.start = tokens[i]
        /\ (d.values[1] # NilNode => MinOffset(d.values[1]) = i + 1)
        /\ (d.end # NilToken => d.end.type = "DocumentEnd")

\* A top-level node that is no Document is wrapped in one with no start and
\* no end.
ImplicitDocuments ==
    \A k \in 1..Len(file) :
        /\ file[k].type = "Document"
        /\ (file[k].start = NilToken =>
              (file[k].end = NilToken /\ file[k].values[1].type # "Document"))

\* C11: in the File returned, every DocumentHeader token of the stream
\* starts a Document whose body is the node parsed from the tokens that
\* follow and whose end is the DocumentEnd that follows the body; every
\* other top-level node is wrapped in a Document with no start and no end.
C11_DocumentPerHeader ==
    Returned =>
        /\ \A i \in 1..size : tokens[i].type = "DocumentHeader" => DocumentOf(i)
        /\ ImplicitDocuments

\* C12: every File returned holds at least one Document, and the empty
\* stream yields exactly one Document whose body is a Null node.
C12_AtLeastOneDocument ==
    Returned =>
        /\ Len(file) >= 1
        /\ (tokens = <<>> => (Len(file) = 1 /\ file[1].values[1].type = "Null"))

\* C13: every File returned is fully populated: no node has a nil child, and
\* every node but an implicit Document carries the position of a token of
\* the stream.
C13_FullyPopulated ==
    Returned =>
        \A n \in FileNodes :
            /\ n # NilNode
            /\ (n.type = "Document" => Len(n.values) = 1)
            /\ (n.type # "Document" => n.start.offset \in 1..size)
            /\ \A k \in 1..Len(n.values) : n.values[k] # NilNode

(***************************************************************************)
(* The scanner (package scanner).  A source is a sequence of characters,   *)
(* each a one-character string.  The operators below work on a machine     *)
(* record m = [s, ctx, pos, phase, scanned]: the Scanner, the Context of   *)
(* the Scan call under way, the progress that call will return, the place  *)
(* of control and the tokens returned so far.                              *)
(***************************************************************************)
\* The rune 0 that previousChar and nextChar give outside the source.
NUL == ""

Digits == {"0", "1", "2", "3", "4", "5", "6", "7", "8", "9"}

\* strings.TrimLeft(b, " ")
RECURSIVE TrimLeft(_)
TrimLeft(b) == IF b # <<>> /\ Head(b) = " " THEN TrimLeft(Tail(b)) ELSE b

\* strings.TrimRight(b, " ")
RECURSIVE TrimRight(_)
TrimRight(b) ==
    IF b # <<>> /\ b[Len(b)] = " " THEN TrimRight(SubSeq(b, 1, Len(b) - 1)) ELSE b

\* A token: kind, semantic value, original lexeme and position.  at is the
\* index in the source (from 0) of the token's first character, kept to
\* compare the position with; the scanner never reads it.
Token(type, value, origin, position, at) ==
    [type |-> type, value |-> value, origin |-> origin,
     position |-> position, at |-> at]

\* A nil *token.Token.
NoToken == Token("nil", <<>>, <<>>, NilPosition, 0)

\* token.New: the kind of a plain scalar is chosen from its text.
Classify(value) ==
    IF value # <<>> /\ \A i \in 1..Len(value) : value[i] \in Digits THEN "Integer"
    ELSE IF value = <<"~">> THEN "Null"
    ELSE "String"

New(value, origin, position, at) ==
    Token(Classify(value), value, origin, position, at)

(***************************************************************************)
(* Context operations, on a context record cx.                             *)
(***************************************************************************)
ctxNext(cx) == cx.idx < cx.size

nextPos(cx) == cx.idx + 1

currentChar(cx) == cx.src[cx.idx + 1]

previousChar(cx) ==
    IF cx.idx > 0 /\ cx.idx <= cx.size THEN cx.src[cx.idx] ELSE NUL

nextChar(cx) == IF cx.size > cx.idx + 1 THEN cx.src[cx.idx + 2] ELSE NUL

RECURSIVE repeatFrom(_, _, _)
repeatFrom(cx, ch, i) ==
    IF i < cx.size /\ cx.src[i + 1] = ch THEN 1 + repeatFrom(cx, ch, i + 1) ELSE 0

repeatNum(cx, ch) == repeatFrom(cx, ch, cx.idx)

isEOS(cx) == cx.size - 1 <= cx.idx

isNextEOS(cx) == cx.size - 1 <= cx.idx + 1

bufferedSrc(cx) == TrimLeft(cx.buf)

isSaveIndentMode(cx) == cx.isLiteral \/ cx.isFolded \/ cx.isRawFolded

\* src[from:to]
source(cx, from, to) == SubSeq(cx.src, from + 1, to)

addBuf(cx, c) ==
    [cx EXCEPT !.buf = Append(@, c),
               !.bufAt = IF TrimLeft(cx.buf) = <<>> THEN cx.idx ELSE @]

addOriginBuf(cx, c) == [cx EXCEPT !.obuf = Append(@, c)]

progress(cx, num) == [cx EXCEPT !.idx = @ + num]

resetBuffer(cx) == [cx EXCEPT !.buf = <<>>, !.obuf = <<>>]

ctxBreakLiteral(cx) ==
    [cx EXCEPT !.isLiteral = FALSE, !.isRawFolded = FALSE, !.isFolded = FALSE,
               !.literalOpt = <<>>]

addToken(cx, tk) ==
    IF tk = NoToken THEN cx ELSE [cx EXCEPT !.tokens = Append(@, tk)]

\* Flush buf as one token; nothing buffered gives nil and leaves the buffers.
ctxBufferedToken(cx, position, at) ==
    IF bufferedSrc(cx) = <<>>
    THEN [ctx |-> cx, tk |-> NoToken]
    ELSE [ctx |-> resetBuffer(cx),
          tk |-> New(bufferedSrc(cx), cx.obuf, position, at)]

\* First index i >= from with src[i] in stops, or -1.
RECURSIVE indexFrom(_, _, _)
indexFrom(cx, from, stops) ==
    IF from >= cx.size THEN -1
    ELSE IF cx.src[from + 1] \in stops THEN from
    ELSE indexFrom(cx, from + 1, stops)

(***************************************************************************)
(* The same operations applied to the context of a machine.                *)
(***************************************************************************)
AddBuf(m, c) == [m EXCEPT !.ctx = addBuf(m.ctx, c)]

AddOriginBuf(m, c) == [m EXCEPT !.ctx = addOriginBuf(m.ctx, c)]

\* addOriginBuf of every character of a string, in order.
AddOrigin(m, str) == [m EXCEPT !.ctx.obuf = @ \o str]

Progress(m, num) == [m EXCEPT !.ctx = progress(m.ctx, num)]

AddToken(m, tk) == [m EXCEPT !.ctx = addToken(m.ctx, tk)]

\* Index in the whole source of the character under the cursor.
Here(m) == m.s.sourcePos + m.ctx.idx

(***************************************************************************)
(* Scanner methods.                                                        *)
(***************************************************************************)
\* Scanner.pos
scannerPos(m) ==
    [line |-> m.s.line, column |-> m.s.column, offset |-> m.s.offset,
     indentNum |-> m.s.indentNum, indentLevel |-> m.s.indentLevel]

\* Scanner.bufferedToken: the machine afterwards and the token (or nil).
bufferedToken(m) ==
    LET at == m.s.sourcePos + m.ctx.bufAt
        trimmedSize == Len(TrimLeft(m.ctx.buf))
        r == IF m.s.savedPos # NilPosition
             THEN ctxBufferedToken(m.ctx, m.s.savedPos, at)
             ELSE ctxBufferedToken(m.ctx,
                      [scannerPos(m) EXCEPT !.column = m.s.column - trimmedSize,
                                            !.offset = m.s.offset - trimmedSize],
                      at)
    IN [m |-> [m EXCEPT !.ctx = r.ctx, !.s.savedPos = NilPosition], tk |-> r.tk]

progressColumn(m, num) ==
    [m EXCEPT !.s.column = @ + num, !.s.offset = @ + num,
              !.ctx = progress(m.ctx, num)]

progressLine(m) ==
    [m EXCEPT !.s.column = 1, !.s.line = @ + 1, !.s.offset = @ + 1,
              !.s.indentNum = 0, !.s.isFirstCharAtLine = TRUE,
              !.s.isAnchor = FALSE, !.ctx = progress(m.ctx, 1)]

\* The level left by an indent-down.
indentLevelDownUnchecked(sc) == sc.prevIndentLevel - 1

indentLevelDown(sc) ==
    IF sc.prevIndentLevel > 0 THEN sc.prevIndentLevel - 1 ELSE sc.indentLevel

\* Scanner.updateIndent, on the scanner record.
updateIndent(sc, c) ==
    IF sc.isFirstCharAtLine /\ c = " " THEN [sc EXCEPT !.indentNum = @ + 1]
    ELSE IF ~sc.isFirstCharAtLine THEN [sc EXCEPT !.indentState = IndentStateKeep]
    ELSE LET byNum == IF sc.prevIndentNum < sc.indentNum THEN IndentStateUp
                      ELSE IF sc.prevIndentNum = sc.indentNum THEN IndentStateEqual
                      ELSE IndentStateDown
             level == IF byNum = IndentStateUp THEN sc.prevIndentLevel + 1
                      ELSE IF byNum = IndentStateEqual THEN sc.prevIndentLevel
                      ELSE indentLevelDown(sc)
             byColumn == IF sc.prevIndentColumn < sc.column THEN IndentStateUp
                         ELSE IF sc.prevIndentColumn = sc.column THEN IndentStateEqual
                         ELSE IndentStateDown
         IN [sc EXCEPT !.indentLevel = level,
                       !.indentState = IF sc.prevIndentColumn > 0 THEN byColumn
                                       ELSE byNum,
                       !.prevIndentNum = sc.indentNum,
                       !.prevIndentColumn = 0,
                       !.prevIndentLevel = level,
                       !.isFirstCharAtLine = FALSE]

isChangedToIndentStateDown(sc) == sc.indentState = IndentStateDown

isChangedToIndentStateUp(sc) == sc.indentState = IndentStateUp

isChangedToIndentStateEqual(sc) == sc.indentState = IndentStateEqual

addBufferedTokenIfExists(m) ==
    LET r == bufferedToken(m) IN AddToken(r.m, r.tk)

\* The literal flags stay as they are.
breakLiteralKeepsFlags(m) == m

breakLiteral(m) == [m EXCEPT !.ctx = ctxBreakLiteral(m.ctx)]

\* Scanner.scanQuote: the machine afterwards, the token (nil when the quote
\* is never closed) and the progress.  previousChar is read at the cursor,
\* which stays on the first character after the opening quote.
scanQuote(m, ch) ==
    LET startIndex == m.ctx.idx + 1
        m1 == Progress(AddOriginBuf(m, ch), 1)
        found == IF previousChar(m1.ctx) = "\\" THEN -1
                 ELSE indexFrom(m.ctx, startIndex, {ch})
    IN IF found >= 0
       THEN LET value == source(m.ctx, startIndex, found)
                m2 == AddOrigin(m1, source(m.ctx, startIndex, found + 1))
            IN [m |-> m2,
                tk |-> Token(IF ch = "'" THEN "SingleQuote" ELSE "DoubleQuote",
                             value, m2.ctx.obuf, scannerPos(m2), Here(m)),
                pos |-> Len(value) + 1]
       ELSE [m |-> AddOrigin(m1, source(m.ctx, startIndex, m.ctx.size)),
             tk |-> NoToken,
             pos |-> IF m.ctx.size > startIndex THEN m.ctx.size - startIndex ELSE 0]

\* Scanner.scanTag
scanTag(m) ==
    LET m1 == Progress(AddOriginBuf(m, "!"), 1)
        from == m1.ctx.idx
        found == indexFrom(m.ctx, from, {" ", "\n"})
    IN IF found >= 0
       THEN LET value == source(m.ctx, from - 1, found)
                m2 == AddOrigin(m1, source(m.ctx, from, found + 1))
            IN [m |-> m2,
                tk |-> Token("Tag", value, m2.ctx.obuf, scannerPos(m2), Here(m)),
                pos |-> Len(value)]
       ELSE [m |-> AddOrigin(m1, source(m.ctx, from, m.ctx.size)),
             tk |-> NoToken,
             pos |-> IF m.ctx.size > from THEN m.ctx.size - from ELSE 0]

\* Scanner.scanComment
scanComment(m) ==
    LET m1 == Progress(AddOriginBuf(m, "#"), 1)
        from == m1.ctx.idx
        found == IF previousChar(m1.ctx) = "\\" THEN -1
                 ELSE indexFrom(m.ctx, from, {"\n"})
    IN IF found >= 0
       THEN LET value == source(m.ctx, from, found)
                m2 == AddOrigin(m1, source(m.ctx, from, found + 1))
            IN [m |-> m2,
                tk |-> Token("Comment", value, m2.ctx.obuf, scannerPos(m2), Here(m)),
                pos |-> Len(value) + 1]
       ELSE [m |-> AddOrigin(m1, source(m.ctx, from, m.ctx.size)),
             tk |-> NoToken,
             pos |-> IF m.ctx.size > from THEN m.ctx.size - from ELSE 0]

\* Scanner.scanLiteral: one character of a block scalar body.
scanLiteral(m, c) ==
    LET m0 == IF isEOS(m.ctx)
              THEN AddToken(m, New(bufferedSrc(m.ctx), m.ctx.obuf, scannerPos(m),
                                   IF bufferedSrc(m.ctx) = <<>> THEN Here(m)
                                   ELSE m.s.sourcePos + m.ctx.bufAt))
              ELSE m
    IN IF c = "\n"
       THEN AddOriginBuf(
                progressLine(AddBuf(m0, IF m0.ctx.isLiteral THEN c ELSE " ")), c)
       ELSE IF m0.s.isFirstCharAtLine /\ c = " "
       THEN AddOriginBuf(progressColumn(m0, 1), c)
       ELSE AddOriginBuf(progressColumn(AddBuf(m0, c), 1), c)

LiteralOptions == {<<>>, <<"+">>, <<"-">>} \cup {<<d>> : d \in Digits}

\* Scanner.scanLiteralHeader: the machine afterwards, the progress and
\* whether "invalid literal header" is returned.  Only the first newline can
\* end a valid header: the text up to a later one holds a newline.
scanLiteralHeader(m) ==
    LET header == currentChar(m.ctx)
        m1 == Progress(AddOriginBuf(m, header), 1)
        from == m1.ctx.idx
        found == indexFrom(m.ctx, from, {"\n"})
        opt == TrimRight(source(m.ctx, from, found))
    IN IF found >= 0 /\ opt \in LiteralOptions
       THEN LET m2 == AddOrigin(m1, source(m.ctx, from, found + 1))
                tk == Token(IF header = "|" THEN "Literal" ELSE "Folded",
                            <<header>> \o opt, m2.ctx.obuf, scannerPos(m2), Here(m))
                m3 == AddToken(m2, tk)
            IN [m |-> [m3 EXCEPT !.ctx = [resetBuffer(m3.ctx) EXCEPT
                                              !.isLiteral = @ \/ header = "|",
                                              !.isFolded = @ \/ header = ">",
                                              !.literalOpt = opt]],
                pos |-> found - from,
                err |-> FALSE]
       ELSE [m |-> AddOrigin(m1, source(m.ctx, from, m.ctx.size)),
             pos |-> IF m.ctx.size > from THEN m.ctx.size - from - 1 ELSE 0,
             err |-> TRUE]

\* Scanner.scanNewLine
scanNewLine(m, c) ==
    LET m1 == IF Len(m.ctx.buf) > 0 /\ m.s.savedPos = NilPosition
              THEN [m EXCEPT !.s.savedPos =
                        [scannerPos(m) EXCEPT
                             !.column = @ - Len(bufferedSrc(m.ctx))]]
              ELSE m
        m2 == IF isEOS(m1.ctx) THEN addBufferedTokenIfExists(m1)
              ELSE IF m1.s.isAnchor THEN addBufferedTokenIfExists(m1)
              ELSE m1
    IN progressLine(AddOriginBuf(AddBuf(m2, " "), c))

(***************************************************************************)
(* Scanner.scan: the cases of the switch.  Each gives the machine          *)
(* afterwards and whether scan returns (TRUE) or goes on with the next     *)
(* character (FALSE).                                                      *)
(***************************************************************************)
Returns(m) == [m |-> m, returned |-> TRUE]

Continues(m) == [m |-> m, returned |-> FALSE]

\* The end of the loop body: the character joins the buffered text.
appendChar(m, c) == Continues(progressColumn(AddOriginBuf(AddBuf(m, c), c), 1))

\* A one-character token whose origin is the original buffer with c added.
emitChar(m, type, c) ==
    LET m1 == AddOriginBuf(m, c)
    IN AddToken(m1, Token(type, <<c>>, m1.ctx.obuf, scannerPos(m1), Here(m1)))

caseMappingStart(m, c) ==
    IF bufferedSrc(m.ctx) = <<>>
    THEN Returns(progressColumn(
             [emitChar(m, "MappingStart", c) EXCEPT !.s.isStartedFlowMap = TRUE], 1))
    ELSE appendChar(m, c)

caseMappingEnd(m, c) ==
    IF bufferedSrc(m.ctx) = <<>> \/ m.s.isStartedFlowMap
    THEN Returns(progressColumn(
             [emitChar(addBufferedTokenIfExists(m), "MappingEnd", c)
                  EXCEPT !.s.isStartedFlowMap = FALSE], 1))
    ELSE appendChar(m, c)

caseDocumentEnd(m, c) ==
    IF m.s.indentNum = 0 /\ repeatNum(m.ctx, ".") = 3
    THEN Returns([progressColumn(
                      AddToken(m, Token("DocumentEnd", <<".", ".", ".">>,
                                        <<".", ".", ".">>, scannerPos(m), Here(m))),
                      3)
                  EXCEPT !.pos = @ + 2])
    ELSE appendChar(m, c)

caseMergeKey(m, c) ==
    IF repeatNum(m.ctx, "<") = 2
    THEN Returns([progressColumn(
                      AddToken([m EXCEPT !.s.prevIndentColumn = m.s.column],
                               Token("MergeKey", <<"<", "<">>,
                                     m.ctx.obuf \o <<"<", "<">>,
                                     scannerPos(m), Here(m))),
                      1)
                  EXCEPT !.pos = @ + 1])
    ELSE appendChar(m, c)

caseDash(m, c) ==
    IF m.s.indentNum = 0 /\ repeatNum(m.ctx, "-") = 3
    THEN LET m1 == addBufferedTokenIfExists(m)
         IN Returns([progressColumn(
                         AddToken(m1, Token("DocumentHeader", <<"-", "-", "-">>,
                                            <<"-", "-", "-">>, scannerPos(m1),
                                            Here(m1))),
                         3)
                     EXCEPT !.pos = @ + 2])
    ELSE IF bufferedSrc(m.ctx) # <<>> /\ isChangedToIndentStateUp(m.s)
    THEN appendChar([m EXCEPT !.ctx.isRawFolded = TRUE], c)
    ELSE IF nextChar(m.ctx) = " "
    THEN LET m1 == emitChar(addBufferedTokenIfExists(m), "SequenceEntry", c)
         IN Returns(progressColumn(
                [m1 EXCEPT !.s.prevIndentColumn = m1.s.column], 1))
    ELSE appendChar(m, c)

caseSequenceStart(m, c) ==
    IF bufferedSrc(m.ctx) = <<>>
    THEN Returns(progressColumn(
             [emitChar(m, "SequenceStart", c)
                  EXCEPT !.s.isStartedFlowSequence = TRUE], 1))
    ELSE appendChar(m, c)

caseSequenceEnd(m, c) ==
    IF bufferedSrc(m.ctx) = <<>> \/ m.s.isStartedFlowSequence
    THEN Returns(progressColumn(
             [emitChar(addBufferedTokenIfExists(m), "SequenceEnd", c)
                  EXCEPT !.s.isStartedFlowSequence = FALSE], 1))
    ELSE appendChar(m, c)

caseCollectEntry(m, c) ==
    IF m.s.isStartedFlowSequence \/ m.s.isStartedFlowMap
    THEN Returns(progressColumn(
             emitChar(addBufferedTokenIfExists(m), "CollectEntry", c), 1))
    ELSE appendChar(m, c)

caseMappingValue(m, c) ==
    IF nextChar(m.ctx) = " " \/ nextChar(m.ctx) = "\n" \/ isNextEOS(m.ctx)
    THEN LET r == bufferedToken(m)
             m1 == IF r.tk # NoToken
                   THEN AddToken([r.m EXCEPT !.s.prevIndentColumn =
                                                 r.tk.position.column], r.tk)
                   ELSE r.m
         IN Returns(progressColumn(
                AddToken(m1, Token("MappingValue", <<":">>, <<":">>,
                                   scannerPos(m1), Here(m1))), 1))
    ELSE appendChar(m, c)

caseLiteralHeader(m, c) ==
    IF bufferedSrc(m.ctx) = <<>>
    THEN LET r == scanLiteralHeader(m)
         IN IF r.err THEN Returns(r.m)
            ELSE Continues(progressLine(progressColumn(r.m, r.pos)))
    ELSE appendChar(m, c)

caseTag(m, c) ==
    IF bufferedSrc(m.ctx) = <<>>
    THEN LET r == scanTag(m)
             m1 == progressColumn(AddToken(r.m, r.tk), r.pos)
             m2 == IF previousChar(m1.ctx) = "\n" THEN progressLine(m1) ELSE m1
         IN Returns([m2 EXCEPT !.pos = @ + r.pos])
    ELSE appendChar(m, c)

directive(m) ==
    Returns(progressColumn(
        AddToken(m, Token("Directive", <<"%">>, <<"%">>, scannerPos(m), Here(m))), 1))

casePercent(m, c) ==
    IF bufferedSrc(m.ctx) = <<>> /\ m.s.indentNum = 0
    THEN directive(m)
    ELSE appendChar(m, c)

caseQuestion(m, c) ==
    IF bufferedSrc(m.ctx) = <<>> /\ nextChar(m.ctx) = " "
    THEN directive(m)
    ELSE appendChar(m, c)

caseAnchor(m, c) ==
    IF bufferedSrc(m.ctx) = <<>>
    THEN Returns([progressColumn(
                      emitChar(addBufferedTokenIfExists(m), "Anchor", c), 1)
                  EXCEPT !.s.isAnchor = TRUE])
    ELSE appendChar(m, c)

caseAlias(m, c) ==
    IF bufferedSrc(m.ctx) = <<>>
    THEN Returns(progressColumn(
             emitChar(addBufferedTokenIfExists(m), "Alias", c), 1))
    ELSE appendChar(m, c)

caseComment(m, c) ==
    LET r == scanComment(addBufferedTokenIfExists(m))
        m1 == progressLine(progressColumn(AddToken(r.m, r.tk), r.pos))
    IN Returns([m1 EXCEPT !.pos = @ + r.pos])

caseQuote(m, c) ==
    LET r == scanQuote(m, c)
        m1 == progressColumn(AddToken(r.m, r.tk), r.pos)
    IN Returns([m1 EXCEPT !.pos = @ + r.pos])

caseNewLine(m, c) == Continues(scanNewLine(m, c))

caseSpace(m, c) ==
    IF isSaveIndentMode(m.ctx) \/ (~m.s.isAnchor /\ ~m.s.isFirstCharAtLine)
    THEN appendChar(m, c)
    ELSE IF m.s.isFirstCharAtLine
    THEN Continues(AddOriginBuf(progressColumn(m, 1), c))
    ELSE Returns([progressColumn(addBufferedTokenIfExists(m), 1)
                  EXCEPT !.s.isAnchor = FALSE])

\* The characters the switch has a case for.
SwitchChars ==
    {"{", "}", ".", "<", "-", "[", "]", ",", ":", "|", ">", "!", "%", "?", "&",
     "*", "#", "'", "\"", "\n", " "}

scanSwitch(m, c) ==
    CASE c = "{" -> caseMappingStart(m, c)
      [] c = "}" -> caseMappingEnd(m, c)
      [] c = "." -> caseDocumentEnd(m, c)
      [] c = "<" -> caseMergeKey(m, c)
      [] c = "-" -> caseDash(m, c)
      [] c = "[" -> caseSequenceStart(m, c)
      [] c = "]" -> caseSequenceEnd(m, c)
      [] c = "," -> caseCollectEntry(m, c)
      [] c = ":" -> caseMappingValue(m, c)
      [] c \in {"|", ">"} -> caseLiteralHeader(m, c)
      [] c = "!" -> caseTag(m, c)
      [] c = "%" -> casePercent(m, c)
      [] c = "?" -> caseQuestion(m, c)
      [] c = "&" -> caseAnchor(m, c)
      [] c = "*" -> caseAlias(m, c)
      [] c = "#" -> caseComment(m, c)
      [] c \in {"'", "\""} -> caseQuote(m, c)
      [] c = "\n" -> caseNewLine(m, c)
      [] c = " " -> caseSpace(m, c)
      [] OTHER -> appendChar(m, c)

\* Scan hands the tokens of this call to its caller, without moving on in
\* the source.
ScanReturnsInPlace(m) ==
    [m EXCEPT !.scanned = @ \o m.ctx.tokens, !.ctx = NoContext, !.pos = 0,
              !.phase = "Scan"]

\* Scan after scan has returned: the source position moves on by the
\* progress and the tokens of the context go to the caller.
ScanReturns(m) ==
    [m EXCEPT !.s.sourcePos = @ + m.pos, !.scanned = @ \o m.ctx.tokens,
              !.ctx = NoContext, !.pos = 0, !.phase = "Scan"]

\* The head of the loop body: the indent update on the character under the
\* cursor.
afterIndent(m) ==
    [m EXCEPT !.pos = nextPos(m.ctx), !.s = updateIndent(m.s, currentChar(m.ctx))]

\* The character goes to scanLiteral and not to the switch.
Funnels(m) ==
    /\ ~isChangedToIndentStateDown(afterIndent(m).s)
    /\ isSaveIndentMode(m.ctx)

\* The machine as the switch finds it.
beforeSwitch(m) ==
    LET m1 == afterIndent(m)
    IN IF isChangedToIndentStateDown(m1.s)
       THEN breakLiteral(addBufferedTokenIfExists(m1))
       ELSE IF /\ isChangedToIndentStateEqual(m1.s)
               /\ Len(m1.ctx.obuf) > 0
               /\ m1.ctx.obuf[1] # "\n"
       THEN addBufferedTokenIfExists(m1)
       ELSE m1

\* One turn of the loop of Scanner.scan.
scanChar(m) ==
    IF Funnels(m)
    THEN scanLiteral(afterIndent(m), currentChar(m.ctx))
    ELSE LET r == scanSwitch(beforeSwitch(m), currentChar(m.ctx))
         IN IF r.returned THEN ScanReturns(r.m) ELSE r.m

\* The loop of Scanner.scan is over: flush and return.
scanEnd(m) == ScanReturns(addBufferedTokenIfExists(m))

\* Scanner.Scan, up to the call of scan.
ScanCall(m) ==
    IF m.s.sourcePos >= m.s.sourceSize
    THEN [m EXCEPT !.phase = "EOF"]
    ELSE [m EXCEPT !.ctx = newContext(SubSeq(m.s.source, m.s.sourcePos + 1,
                                             m.s.sourceSize)),
                   !.phase = "scan"]

\* Scanner.Init
ScannerInit(sc, src) ==
    [sc EXCEPT !.source = src, !.sourcePos = 0, !.sourceSize = Len(src),
               !.line = 1, !.column = 1, !.offset = 1,
               !.prevIndentLevel = 0, !.prevIndentNum = 0, !.prevIndentColumn = 0,
               !.indentLevel = 0, !.indentNum = 0, !.isFirstCharAtLine = TRUE]

\* One step of a machine that has not reached the end of its source.
Step(m) ==
    IF m.phase = "Scan" THEN ScanCall(m)
    ELSE IF ctxNext(m.ctx) THEN scanChar(m)
    ELSE scanEnd(m)

\* The tokens a machine has returned when Scan gives io.EOF.
RECURSIVE Tokenize(_)
Tokenize(m) == IF m.phase = "EOF" THEN m.scanned ELSE Tokenize(Step(m))

\* A new scanner, Init'ed with src.
Fresh(src) ==
    [s |-> ScannerInit(ZeroScanner, src), ctx |-> NoContext, pos |-> 0,
     phase |-> "Scan", scanned |-> <<>>]

(***************************************************************************)
(* The sources explored: every string up to MaxSrcLen over the characters  *)
(* the switch knows plus a letter, longer strings over the characters of   *)
(* flow containers, of block scalars, of indented block structure and of   *)
(* indented lines, and the scenario texts.                                 *)
(***************************************************************************)
\* The characters of the explored sources that the switch has no case for.
PlainChars ==
    Digits \cup {"a", "b", "d", "e", "f", "h", "k", "l", "o", "r", "w", "x", "y"}

FullChars == SwitchChars \cup {"a"}

FlowChars == {"[", "]", "{", "}", ",", "a"}

BlockChars == {" ", "|", ">", "\n", "a", "-"}

IndentChars == {" ", "\n", "a", ":", "-", "'"}

LineChars == {" ", "\n", "a"}

\* a: 1
SourceOne == <<"a", ":", " ", "1">>

\* a: 1\nb: 2
SourceTwo == <<"a", ":", " ", "1", "\n", "b", ":", " ", "2">>

\* - 1\n- 2\n- 3
SourceThree == <<"-", " ", "1", "\n", "-", " ", "2", "\n", "-", " ", "3">>

\* {a: 1, b: 2}
SourceFour ==
    <<"{", "a", ":", " ", "1", ",", " ", "b", ":", " ", "2", "}">>

\* key: |\n  hello\n  world\n
SourceFive ==
    <<"k", "e", "y", ":", " ", "|", "\n", " ", " ", "h", "e", "l", "l", "o", "\n",
      " ", " ", "w", "o", "r", "l", "d", "\n">>

\* a: &x 1\nb: *x
SourceSix ==
    <<"a", ":", " ", "&", "x", " ", "1", "\n", "b", ":", " ", "*", "x">>

\* ---\nfoo\n...
SourceSeven == <<"-", "-", "-", "\n", "f", "o", "o", "\n", ".", ".", ".">>

ScenarioSources ==
    {SourceOne, SourceTwo, SourceThree, SourceFour, SourceFive, SourceSix,
     SourceSeven}

Sources ==
    StreamsOver(FullChars, MaxSrcLen)
        \cup StreamsOver(FlowChars, MaxFlowSrcLen)
        \cup StreamsOver(BlockChars, MaxBlockSrcLen)
        \cup StreamsOver(IndentChars, MaxIndentSrcLen)
        \cup StreamsOver(LineChars, MaxLineSrcLen)
        \cup ScenarioSources

ReChars == {"a", " ", ",", "]", "\n"}

\* The sources a used scanner is Init'ed with again.
ReSources == StreamsOver(ReChars, MaxReLen)

(***************************************************************************)
(* Scanner actions.                                                        *)
(***************************************************************************)
scanVars == <<scanner, ctx, pos, phase, scanned, inits, observed>>

parserVars == <<tokens, idx, pc, stack, ret, file>>

\* No parser runs while the scanner is explored.
ParserIdle ==
    /\ tokens = <<>>
    /\ idx = 1
    /\ pc = "idle"
    /\ stack = <<>>
    /\ ret = Ok(NilNode)
    /\ file = <<>>

Machine ==
    [s |-> scanner, ctx |-> ctx, pos |-> pos, phase |-> phase, scanned |-> scanned]

Become(m) ==
    /\ scanner' = m.s
    /\ ctx' = m.ctx
    /\ pos' = m.pos
    /\ phase' = m.phase
    /\ scanned' = m.scanned

\* var s Scanner; s.Init(src)
InitScan ==
    /\ \E src \in Sources : scanner = ScannerInit(ZeroScanner, src)
    /\ ctx = NoContext
    /\ pos = 0
    /\ phase = "Scan"
    /\ scanned = <<>>
    /\ inits = 1
    /\ observed = <<>>
    /\ ParserIdle

\* s.Init(src) on a scanner that has been through a source of at most
\* MaxHistoryLen characters.
InitAgain ==
    /\ phase = "EOF"
    /\ inits < MaxInits
    /\ scanner.sourceSize <= MaxHistoryLen
    /\ \E src \in ReSources : scanner' = ScannerInit(scanner, src)
    /\ ctx' = NoContext
    /\ pos' = 0
    /\ phase' = "Scan"
    /\ scanned' = <<>>
    /\ inits' = inits + 1
    /\ observed' = <<>>
    /\ UNCHANGED parserVars

\* Scan at the end of the source: io.EOF.
ScanEOF ==
    /\ phase = "Scan"
    /\ scanner.sourcePos >= scanner.sourceSize
    /\ Become(ScanCall(Machine))
    /\ UNCHANGED <<inits, observed>>
    /\ UNCHANGED parserVars

\* Scan before the end of the source: a context over the rest of it.
Scan ==
    /\ phase = "Scan"
    /\ scanner.sourcePos < scanner.sourceSize
    /\ Become(ScanCall(Machine))
    /\ UNCHANGED <<inits, observed>>
    /\ UNCHANGED parserVars

\* The indent state decided on the first character of a line is recorded.
Observe ==
    observed' = IF scanner.isFirstCharAtLine /\ currentChar(ctx) # " "
                THEN Append(observed,
                            updateIndent(scanner, currentChar(ctx)).indentState)
                ELSE observed

\* The loop is on a character of chars that reaches the switch.
AtSwitch(chars) ==
    /\ phase = "scan"
    /\ ctxNext(ctx)
    /\ currentChar(ctx) \in chars
    /\ ~Funnels(Machine)

\* One turn of the loop, whose switch case gives r.
Turn(r) ==
    /\ Become(IF r.returned THEN ScanReturns(r.m) ELSE r.m)
    /\ Observe
    /\ UNCHANGED inits
    /\ UNCHANGED parserVars

\* One turn of the loop inside a block scalar.
scanLiteralChar ==
    /\ phase = "scan"
    /\ ctxNext(ctx)
    /\ Funnels(Machine)
    /\ Turn(Continues(scanLiteral(afterIndent(Machine), currentChar(ctx))))

scanMappingStart ==
    /\ AtSwitch({"{"})
    /\ Turn(caseMappingStart(beforeSwitch(Machine), currentChar(ctx)))

scanMappingEnd ==
    /\ AtSwitch({"}"})
    /\ Turn(caseMappingEnd(beforeSwitch(Machine), currentChar(ctx)))

scanDocumentEnd ==
    /\ AtSwitch({"."})
    /\ Turn(caseDocumentEnd(beforeSwitch(Machine), currentChar(ctx)))

scanMergeKey ==
    /\ AtSwitch({"<"})
    /\ Turn(caseMergeKey(beforeSwitch(Machine), currentChar(ctx)))

scanDash ==
    /\ AtSwitch({"-"})
    /\ Turn(caseDash(beforeSwitch(Machine), currentChar(ctx)))

scanSequenceStart ==
    /\ AtSwitch({"["})
    /\ Turn(caseSequenceStart(beforeSwitch(Machine), currentChar(ctx)))

scanSequenceEnd ==
    /\ AtSwitch({"]"})
    /\ Turn(caseSequenceEnd(beforeSwitch(Machine), currentChar(ctx)))

scanCollectEntry ==
    /\ AtSwitch({","})
    /\ Turn(caseCollectEntry(beforeSwitch(Machine), currentChar(ctx)))

scanMappingValue ==
    /\ AtSwitch({":"})
    /\ Turn(caseMappingValue(beforeSwitch(Machine), currentChar(ctx)))

scanHeader ==
    /\ AtSwitch({"|", ">"})
    /\ Turn(caseLiteralHeader(beforeSwitch(Machine), currentChar(ctx)))

scanTagChar ==
    /\ AtSwitch({"!"})
    /\ Turn(caseTag(beforeSwitch(Machine), currentChar(ctx)))

scanPercent ==
    /\ AtSwitch({"%"})
    /\ Turn(casePercent(beforeSwitch(Machine), currentChar(ctx)))

scanQuestion ==
    /\ AtSwitch({"?"})
    /\ Turn(caseQuestion(beforeSwitch(Machine), currentChar(ctx)))

scanAnchor ==
    /\ AtSwitch({"&"})
    /\ Turn(caseAnchor(beforeSwitch(Machine), currentChar(ctx)))

scanAlias ==
    /\ AtSwitch({"*"})
    /\ Turn(caseAlias(beforeSwitch(Machine), currentChar(ctx)))

scanCommentChar ==
    /\ AtSwitch({"#"})
    /\ Turn(caseComment(beforeSwitch(Machine), currentChar(ctx)))

scanQuoteChar ==
    /\ AtSwitch({"'", "\""})
    /\ Turn(caseQuote(beforeSwitch(Machine), currentChar(ctx)))

scanNewLineChar ==
    /\ AtSwitch({"\n"})
    /\ Turn(caseNewLine(beforeSwitch(Machine), currentChar(ctx)))

scanSpace ==
    /\ AtSwitch({" "})
    /\ Turn(caseSpace(beforeSwitch(Machine), currentChar(ctx)))

scanOther ==
    /\ AtSwitch(PlainChars)
    /\ Turn(appendChar(beforeSwitch(Machine), currentChar(ctx)))

\* The loop has run out of characters.
scanLoopEnd ==
    /\ phase = "scan"
    /\ ~ctxNext(ctx)
    /\ Become(scanEnd(Machine))
    /\ UNCHANGED <<inits, observed>>
    /\ UNCHANGED parserVars

NextScan ==
    \/ InitAgain
    \/ ScanEOF
    \/ Scan
    \/ scanLiteralChar
    \/ scanMappingStart
    \/ scanMappingEnd
    \/ scanDocumentEnd
    \/ scanMergeKey
    \/ scanDash
    \/ scanSequenceStart
    \/ scanSequenceEnd
    \/ scanCollectEntry
    \/ scanMappingValue
    \/ scanHeader
    \/ scanTagChar
    \/ scanPercent
    \/ scanQuestion
    \/ scanAnchor
    \/ scanAlias
    \/ scanCommentChar
    \/ scanQuoteChar
    \/ scanNewLineChar
    \/ scanSpace
    \/ scanOther
    \/ scanLoopEnd

SpecScan == InitScan /\ [][NextScan]_vars


(***************************************************************************)
(* Properties of the scanner.                                              *)
(***************************************************************************)
\* This step is the return of a Scan call that scanned.
ScanReturn == phase = "scan" /\ phase' = "Scan"

\* This step is a turn of the loop after which scan goes on.
ScanGoesOn == phase = "scan" /\ phase' = "scan"

\* Scan gives io.EOF at the end of the source and nowhere else, and the
\* source position never passes the end.
EOFAtEnd ==
    /\ scanner.sourcePos <= scanner.sourceSize
    /\ (phase = "EOF" => scanner.sourcePos = scanner.sourceSize)
    /\ (phase = "scan" => scanner.sourcePos < scanner.sourceSize)

\* The tokens returned so far begin where the calls so far have been, in
\* the order of the source.
InSourceOrder ==
    /\ \A i \in 1..Len(scanned) : scanned[i].at < scanner.sourcePos
    /\ \A i \in 1..Len(scanned) - 1 : scanned[i].at <= scanned[i + 1].at

\* The tokens a returning call hands over come after those of the calls
\* before it and begin in the part of the source that call went through.
BatchInSlice ==
    /\ Len(scanned') >= Len(scanned)
    /\ SubSeq(scanned', 1, Len(scanned)) = scanned
    /\ \A i \in Len(scanned) + 1..Len(scanned') :
           /\ scanner.sourcePos <= scanned'[i].at
           /\ scanned'[i].at < scanner'.sourcePos

C15_InitForgetsHistory ==
    (phase = "EOF" /\ inits > 1) =>
        scanned = Tokenize(Fresh(scanner.source))

\* The column (from 1) of the character at index at (from 0) of src: its
\* distance from the last newline before it.
ColumnOf(src, at) ==
    LET newlines == {j \in 1..at : src[j] = "\n"} \cup {0}
        last == CHOOSE j \in newlines : \A k \in newlines : k <= j
    IN at + 1 - last

\* The position of the token is the place of its first character.
Faithful(tk) ==
    /\ tk.position.column = ColumnOf(scanner.source, tk.at)
    /\ tk.position.offset = tk.at + 1

\* C16: every token returned carries the column of its first character on
\* its line and the offset, from 1, of that character in the source.
C16_FaithfulPositions ==
    \A i \in 1..Len(scanned) : Faithful(scanned[i])

\* How many of the three block scalar flags are set.
BlockModes(cx) ==
    Cardinality({f \in {"isLiteral", "isFolded", "isRawFolded"} : cx[f]})

\* This step sets a block scalar flag.
EntersBlockMode ==
    \/ ctx'.isLiteral /\ ~ctx.isLiteral
    \/ ctx'.isFolded /\ ~ctx.isFolded
    \/ ctx'.isRawFolded /\ ~ctx.isRawFolded

\* C17: at most one of isLiteral, isFolded and isRawFolded is set, and one
\* is set only by a turn of the loop that finds none set or that clears
\* them first on an indent-down.
C17_OneBlockMode ==
    /\ [](BlockModes(ctx) <= 1)
    /\ [][EntersBlockMode =>
            (\/ ~isSaveIndentMode(ctx)
             \/ isChangedToIndentStateDown(afterIndent(Machine).s))]_vars

\* A folded scalar is open in a call that has had a literal scalar broken
\* by an indent-down.
C17_Witness ==
    /\ ctx.isFolded
    /\ \E i \in 1..Len(ctx.tokens) : ctx.tokens[i].type = "Literal"

\* The kinds of token a key before ':' can be.
KeyTokenKinds == {"String", "Integer", "Null", "SingleQuote", "DoubleQuote"}

\* The call that has just returned ended on ':' after a key on the same
\* line: the column of the key is pinned.
PinnedAfterKey ==
    LET n == Len(scanned)
    IN (/\ n >= 2
        /\ scanned[n].type = "MappingValue"
        /\ scanned[n - 1].type \in KeyTokenKinds
        /\ scanned[n - 1].position.line = scanned[n].position.line)
           => scanner.prevIndentColumn = scanned[n - 1].position.column

\* The call that has just returned ended on '-' or '<<': its column is
\* pinned.
PinnedAfterEntry ==
    LET n == Len(scanned)
    IN (n >= 1 /\ scanned[n].type \in {"SequenceEntry", "MergeKey"})
           => scanner.prevIndentColumn = scanned[n].position.column

\* Up, Equal or Down by comparing the pinned column with the column.
ByColumn(pinned, column) ==
    IF pinned < column THEN IndentStateUp
    ELSE IF pinned = column THEN IndentStateEqual
    ELSE IndentStateDown

\* This step decides the indent state of a line while a column is pinned.
ComparesPinned ==
    /\ phase = "scan"
    /\ ctxNext(ctx)
    /\ scanner.isFirstCharAtLine
    /\ currentChar(ctx) # " "
    /\ scanner.prevIndentColumn > 0

\* C18: after ':' following a key of any kind, after '-' as a sequence
\* entry and after '<<' the column of that key or entry is pinned; the next
\* first character of a line gets its indent state from comparing its
\* column with the pinned one, and the pin is cleared.
C18_PinnedColumn ==
    /\ []((phase = "Scan" /\ scanned # <<>>) =>
             (PinnedAfterKey /\ PinnedAfterEntry))
    /\ [][ComparesPinned =>
            (/\ afterIndent(Machine).s.indentState =
                    ByColumn(scanner.prevIndentColumn, scanner.column)
             /\ afterIndent(Machine).s.prevIndentColumn = 0
             /\ observed' = Append(observed,
                     ByColumn(scanner.prevIndentColumn, scanner.column)))]_vars

\* How many lines so far began with indent state v.
Seen(v) == Cardinality({i \in 1..Len(observed) : observed[i] = v})

\* The source is one document: no document marker has been returned.
OneDocument ==
    \A i \in 1..Len(scanned) :
        scanned[i].type \notin {"DocumentHeader", "DocumentEnd"}

LevelMoves(d) == scanner'.indentLevel = scanner.indentLevel + d

RECURSIVE OpenAfter(_, _, _)
OpenAfter(toks, open, close) ==
    IF toks = <<>> THEN 0
    ELSE LET before == OpenAfter(SubSeq(toks, 1, Len(toks) - 1), open, close)
             last == toks[Len(toks)].type
         IN IF last = open THEN before + 1
            ELSE IF last = close /\ before > 0 THEN before - 1
            ELSE before

\* The cursor lies inside a flow container.
InsideFlow ==
    \/ OpenAfter(scanned \o ctx.tokens, "MappingStart", "MappingEnd") > 0
    \/ OpenAfter(scanned \o ctx.tokens, "SequenceStart", "SequenceEnd") > 0

\* This step returns a CollectEntry token for the character under the
\* cursor.
EmitsCollectEntry ==
    /\ phase' = "Scan"
    /\ scanned' # <<>>
    /\ scanned'[Len(scanned')].type = "CollectEntry"
    /\ scanned'[Len(scanned')].at = Here(Machine)

\* C20: a ',' that reaches the switch of a new scanner gives a CollectEntry
\* token exactly when it lies inside a flow container: after a '{' or '['
\* whose own '}' or ']' has not been seen, even when a container nested in
\* it has been closed.
C20_CollectEntryInsideFlow ==
    [][(AtSwitch({","}) /\ inits = 1) => (EmitsCollectEntry <=> InsideFlow)]_vars

\* Token i of those returned is the header of a block scalar.
IsBlockHeader(i) == scanned[i].type \in {"Literal", "Folded"}

\* The body of the block scalar whose header is token i is in one token:
\* the token after the String token that follows the header does not begin
\* at the same character.
OneBodyToken(i) ==
    (i + 2 <= Len(scanned) /\ scanned[i + 1].type = "String")
        => scanned[i + 2].at > scanned[i + 1].at

\* What the body keeps of the character c: a newline is a space when folded.
KeptAs(c, header) == IF c = "\n" /\ header = "Folded" THEN " " ELSE c

\* The body of the block scalar whose header is token i goes on to the end of
\* the source: no token begins after the one that follows the header.
BodyToEnd(i) ==
    /\ i + 1 <= Len(scanned)
    /\ scanned[i + 1].type = "String"
    /\ \A j \in i + 1..Len(scanned) : scanned[j].at = scanned[i + 1].at

\* Such a body carries the last character of the source.
KeepsLastChar(i) ==
    LET last == scanner.source[scanner.sourceSize]
        value == scanned[i + 1].value
    IN (BodyToEnd(i) /\ last # " ")
           => /\ value # <<>>
              /\ value[Len(value)] = KeptAs(last, scanned[i].type)

\* C21: the header token of a block scalar is followed by one String token
\* with the whole body: the body is not split over several tokens or
\* returned twice, and it keeps its last character when it ends at the end
\* of the source.
C21_OneBodyString ==
    (phase = "EOF" /\ inits = 1) =>
        \A i \in 1..Len(scanned) :
            IsBlockHeader(i) => (OneBodyToken(i) /\ KeepsLastChar(i))

\* This step ends one turn of the top-level loop and begins the next.
ParseGoesRound == Returning("parse", "node") /\ pc' = "parse"

\* This step ends one turn of the loop of a flow mapping or flow sequence,
\* over an element or over a ',', and begins the next.
FlowGoesRound ==
    \/ Returning("parseMapping", "value") /\ pc' = "parseMappingLoop"
    \/ pc = "parseMappingLoop" /\ pc' = "parseMappingLoop"
    \/ Returning("parseSequence", "value") /\ pc' = "parseSequenceLoop"
    \/ pc = "parseSequenceLoop" /\ pc' = "parseSequenceLoop"

\* This step begins a further turn of the loop of a block sequence.
EntryGoesRound == Returning("parseSequenceEntry", "entry") /\ pc' = "parseToken"

\* This step begins a turn of the sibling loop: the first, after the value
\* of the first pair, or a later one, after a sibling pair.
SiblingGoesRound ==
    /\ pc' = "parseToken"
    /\ \/ Returning("parseMappingValue", "value")
       \/ Returning("parseMappingValue", "sibling")
       \/ pc = "parseMappingValue" /\ tokenAt(idx + 2) = NilToken

\* The parse has come to an end: with a File, with an error, or in the nil
\* dereference of a parseToken that gave no node.
ParseEnded == pc \in {"done", "panic"}

\* C22: the token cursor never goes back; every turn of the top-level loop,
\* of the loops of flow mappings, flow sequences and block sequences and of
\* the sibling loop moves it on by at least one token; and the parse of any
\* token stream comes to an end.
C22_NeverRewinds ==
    /\ [][idx' >= idx]_vars
    /\ [][(ParseGoesRound \/ FlowGoesRound \/ EntryGoesRound \/ SiblingGoesRound)
            => idx' > idx]_vars
    /\ <>ParseEnded

\* Scenario 2 has been parsed to the end: a mapping of two pairs, the second
\* absorbed by the sibling loop.
C22_Witness ==
    /\ pc = "done"
    /\ ret.err = NoErr
    /\ tokens = Finalize(ScenarioTwo)
    /\ Len(file) = 1
    /\ idx > Len(tokens)

\* The machine as scan leaves it when it returns in this step: after the
\* switch case that returns, or after the flush at the end of the loop.
LeftAtReturn ==
    IF ctxNext(ctx)
    THEN scanSwitch(beforeSwitch(Machine), currentChar(ctx)).m
    ELSE addBufferedTokenIfExists(Machine)

\* C23: no buffered text is lost when scan returns: at every return of scan
\* the text gathered in the buffer of the context has been made a token, so
\* the context that Scan drops holds no text.
C23_NoTextLost ==
    [][(ScanReturn /\ inits = 1) => bufferedSrc(LeftAtReturn.ctx) = <<>>]_vars

====
